---- MODULE Spec2Model ----
(***************************************************************************)
(* A state-machine model of the InstaFlow job scheduler                     *)
(* (src/src/scheduler.py) and of the rate gate of the Instagram bot         *)
(* (src/src/bot/instagram.py).                                              *)
(*                                                                         *)
(* Python strings that the code takes apart (the schedule_at cadence) are   *)
(* sequences of one-character strings, so that split(), startswith(),       *)
(* replace(), strip(), lower() and rstrip() are computed as Python computes  *)
(* them.  Instants are whole seconds since 2024-01-01T00:00:00, a Monday.    *)
(***************************************************************************)
EXTENDS Integers, Sequences, FiniteSets, TLC

\* An optional value (None or a value v) is the empty sequence or <<v>>
Null == <<>>
Some(v) == <<v>>
Val(o) == o[1]

(***************************************************************************)
(* Python str operations on character sequences                             *)
(***************************************************************************)
UpperChars == <<"A","B","C","D","E","F","G","H","I","J","K","L","M","N","O","P","Q","R","S","T","U","V","W","X","Y","Z">>
LowerChars == <<"a","b","c","d","e","f","g","h","i","j","k","l","m","n","o","p","q","r","s","t","u","v","w","x","y","z">>
DigitChars == <<"0","1","2","3","4","5","6","7","8","9">>

LowerChar(c) ==
    IF \E i \in 1..26 : UpperChars[i] = c
    THEN LowerChars[CHOOSE i \in 1..26 : UpperChars[i] = c]
    ELSE c

\* str.lower()
Lower(s) == [i \in 1..Len(s) |-> LowerChar(s[i])]

\* str.startswith(p)
StartsWith(s, p) == Len(s) >= Len(p) /\ SubSeq(s, 1, Len(p)) = p

RECURSIVE LStrip(_)
LStrip(s) == IF s # <<>> /\ Head(s) = " " THEN LStrip(Tail(s)) ELSE s

RECURSIVE RStripChar(_, _)
\* str.rstrip(c): every trailing occurrence of c is removed
RStripChar(s, c) ==
    IF s # <<>> /\ s[Len(s)] = c THEN RStripChar(SubSeq(s, 1, Len(s) - 1), c) ELSE s

\* str.strip()
Strip(s) == RStripChar(LStrip(s), " ")

RECURSIVE SplitOnAcc(_, _, _)
SplitOnAcc(s, sep, cur) ==
    IF s = <<>> THEN <<cur>>
    ELSE IF StartsWith(s, sep)
         THEN <<cur>> \o SplitOnAcc(SubSeq(s, Len(sep) + 1, Len(s)), sep, <<>>)
         ELSE SplitOnAcc(Tail(s), sep, Append(cur, Head(s)))

\* str.split(sep): the pieces between the occurrences of sep, empty ones kept
SplitOn(s, sep) == SplitOnAcc(s, sep, <<>>)

\* str.split(): the maximal runs of non-blank characters
SplitWS(s) == SelectSeq(SplitOn(s, <<" ">>), LAMBDA w : w # <<>>)

RECURSIVE Replace(_, _)
\* str.replace(pat, ''): every occurrence of pat, left to right, is removed
Replace(s, pat) ==
    IF s = <<>> THEN <<>>
    ELSE IF StartsWith(s, pat)
         THEN Replace(SubSeq(s, Len(pat) + 1, Len(s)), pat)
         ELSE <<Head(s)>> \o Replace(Tail(s), pat)

IsDigit(c) == \E i \in 1..10 : DigitChars[i] = c
DigitVal(c) == (CHOOSE i \in 1..10 : DigitChars[i] = c) - 1

\* whether int(s) returns (a run of decimal digits) rather than raising ValueError
IsInt(s) == s # <<>> /\ \A i \in 1..Len(s) : IsDigit(s[i])

RECURSIVE ToInt(_)
\* int(s) for a run of decimal digits
ToInt(s) == IF s = <<>> THEN 0 ELSE 10 * ToInt(SubSeq(s, 1, Len(s) - 1)) + DigitVal(s[Len(s)])

(***************************************************************************)
(* Cadence strings (job.schedule_at) used as inputs                         *)
(***************************************************************************)
kw_every == <<"e","v","e","r","y">>
kw_daily_at == <<"d","a","i","l","y"," ","a","t">>
kw_weekly_on == <<"w","e","e","k","l","y"," ","o","n">>
kw_at == <<"a","t">>
u_second == <<"s","e","c","o","n","d">>
u_minute == <<"m","i","n","u","t","e">>
u_hour == <<"h","o","u","r">>
u_day == <<"d","a","y">>
u_week == <<"w","e","e","k">>
d_monday == <<"m","o","n","d","a","y">>
d_tuesday == <<"t","u","e","s","d","a","y">>
d_wednesday == <<"w","e","d","n","e","s","d","a","y">>
d_thursday == <<"t","h","u","r","s","d","a","y">>
d_friday == <<"f","r","i","d","a","y">>
d_saturday == <<"s","a","t","u","r","d","a","y">>
d_sunday == <<"s","u","n","d","a","y">>
every_2_hours == <<"e","v","e","r","y"," ","2"," ","h","o","u","r","s">>
every_1_day == <<"e","v","e","r","y"," ","1"," ","d","a","y">>
Every_2_Hours_cased == <<"E","v","e","r","y"," ","2"," ","H","o","u","r","s">>
every_2_HOURS_unit_cased == <<"e","v","e","r","y"," ","2"," ","H","O","U","R","S">>
daily_at_0930 == <<"d","a","i","l","y"," ","a","t"," ","0","9",":","3","0">>
DAILY_AT_0930_cased == <<"D","A","I","L","Y"," ","A","T"," ","0","9",":","3","0">>
weekly_on_monday_at_0800 == <<"w","e","e","k","l","y"," ","o","n"," ","m","o","n","d","a","y"," ","a","t"," ","0","8",":","0","0">>
weekly_on_Monday_at_0800_day_cased == <<"w","e","e","k","l","y"," ","o","n"," ","M","o","n","d","a","y"," ","a","t"," ","0","8",":","0","0">>
Weekly_On_Monday_At_0800_cased == <<"W","e","e","k","l","y"," ","O","n"," ","M","o","n","d","a","y"," ","A","t"," ","0","8",":","0","0">>
weekly_on_saturday_at_0800 == <<"w","e","e","k","l","y"," ","o","n"," ","s","a","t","u","r","d","a","y"," ","a","t"," ","0","8",":","0","0">>
every_5 == <<"e","v","e","r","y"," ","5">>
every_2_fortnights == <<"e","v","e","r","y"," ","2"," ","f","o","r","t","n","i","g","h","t","s">>
every_x_hours == <<"e","v","e","r","y"," ","x"," ","h","o","u","r","s">>
hourly == <<"h","o","u","r","l","y">>
daily_at_9h == <<"d","a","i","l","y"," ","a","t"," ","9","h">>
daily_at_2500 == <<"d","a","i","l","y"," ","a","t"," ","2","5",":","0","0">>
weekly_on_funday_at_0800 == <<"w","e","e","k","l","y"," ","o","n"," ","f","u","n","d","a","y"," ","a","t"," ","0","8",":","0","0">>
weekly_on_monday_at_8 == <<"w","e","e","k","l","y"," ","o","n"," ","m","o","n","d","a","y"," ","a","t"," ","8">>
weekly_on_monday == <<"w","e","e","k","l","y"," ","o","n"," ","m","o","n","d","a","y">>

(***************************************************************************)
(* The `schedule` library, as far as _schedule_all_jobs and the poll loop   *)
(* use it.  A library job is a record; scheduler.jobs is a sequence of them. *)
(***************************************************************************)
Minute == 60
Hour == 3600
Day == 86400
Week == 604800

UnitSeconds(unit) ==
    CASE unit = "seconds" -> 1
      [] unit = "minutes" -> Minute
      [] unit = "hours" -> Hour
      [] unit = "days" -> Day
      [] unit = "weeks" -> Week

Weekdays == <<d_monday, d_tuesday, d_wednesday, d_thursday, d_friday, d_saturday, d_sunday>>
IsWeekday(day) == \E i \in 1..7 : Weekdays[i] = day
\* the weekday's number as datetime.weekday() counts it: Monday is 0
WeekdayIndex(day) == (CHOOSE i \in 1..7 : Weekdays[i] = day) - 1

\* Job.at(time_str) of a daily or weekly job accepts HH:MM or HH:MM:SS
\* (^[0-2]\d:[0-5]\d(:[0-5]\d)?$, hour at most 23) and raises otherwise
AtOk(t) ==
    /\ Len(t) \in {5, 8}
    /\ t[1] \in {"0", "1", "2"} /\ IsDigit(t[2]) /\ t[3] = ":"
    /\ t[4] \in {"0", "1", "2", "3", "4", "5"} /\ IsDigit(t[5])
    /\ Len(t) = 8 => /\ t[6] = ":"
                     /\ t[7] \in {"0", "1", "2", "3", "4", "5"} /\ IsDigit(t[8])
    /\ ToInt(SubSeq(t, 1, 2)) <= 23

\* the time of day, in seconds, that Job.at stores in at_time
AtSeconds(t) ==
    ToInt(SubSeq(t, 1, 2)) * Hour + ToInt(SubSeq(t, 4, 5)) * Minute
    + (IF Len(t) = 8 THEN ToInt(SubSeq(t, 7, 8)) ELSE 0)

\* schedule.every(interval).<unit>, with at(...) and a weekday where given
LibJob(interval, unit, at_time, start_day) ==
    [kind |-> "new", interval |-> interval, unit |-> unit, at_time |-> at_time, start_day |-> start_day]

Continue == [kind |-> "continue"]
Raise == [kind |-> "raise"]
FallThrough == [kind |-> "fallthrough"]

\* the unit named in an 'every N unit' cadence
EveryUnit(parts) == RStripChar(Lower(parts[3]), "s")

ParseEvery(parts) ==
    IF Len(parts) >= 3
    THEN IF ~IsInt(parts[2]) THEN Raise
         ELSE CASE EveryUnit(parts) = u_second -> LibJob(ToInt(parts[2]), "seconds", Null, Null)
                [] EveryUnit(parts) = u_minute -> LibJob(ToInt(parts[2]), "minutes", Null, Null)
                [] EveryUnit(parts) = u_hour -> LibJob(ToInt(parts[2]), "hours", Null, Null)
                [] EveryUnit(parts) = u_day -> LibJob(ToInt(parts[2]), "days", Null, Null)
                [] EveryUnit(parts) = u_week -> LibJob(ToInt(parts[2]), "weeks", Null, Null)
                [] OTHER -> Continue
    ELSE FallThrough

ParseDaily(schedule_at) ==
    LET time_part == Strip(Replace(schedule_at, kw_daily_at))
    IN  IF AtOk(time_part) THEN LibJob(1, "days", Some(AtSeconds(time_part)), Null) ELSE Raise

ParseWeekly(schedule_at) ==
    LET day_time_part == Strip(Replace(schedule_at, kw_weekly_on))
        day_parts == SplitOn(day_time_part, kw_at)
    IN  IF Len(day_parts) = 2
        THEN LET day == Lower(Strip(day_parts[1]))
                 time_part == Strip(day_parts[2])
             IN  IF IsWeekday(day)
                 THEN IF AtOk(time_part)
                      THEN LibJob(1, "weeks", Some(AtSeconds(time_part)), Some(WeekdayIndex(day)))
                      ELSE Raise
                 ELSE Continue
        ELSE Continue

\* what the body of the try block does with one schedule_at, up to the point
\* where scheduled_job.do is reached
ParseSchedule(schedule_at) ==
    IF StartsWith(schedule_at, kw_every) THEN ParseEvery(SplitWS(schedule_at))
    ELSE IF StartsWith(schedule_at, kw_daily_at) THEN ParseDaily(schedule_at)
    ELSE IF StartsWith(schedule_at, kw_weekly_on) THEN ParseWeekly(schedule_at)
    ELSE Continue

StartOfDay(t) == t - (t % Day)
WeekdayOf(t) == (t \div Day) % 7

\* Job._schedule_next_run at instant now: the first instant after now that the rule allows
NextRunAfter(j, now) ==
    LET period == j.interval * UnitSeconds(j.unit)
        days_ahead == IF j.start_day = Null THEN 0 ELSE (Val(j.start_day) - WeekdayOf(now) + 7) % 7
        first == IF j.at_time = Null
                 THEN now + period
                 ELSE StartOfDay(now) + days_ahead * Day + Val(j.at_time)
    IN  IF first <= now THEN first + period ELSE first

(***************************************************************************)
(* Bounds and configured values of the model                                *)
(***************************************************************************)
\* job objects that can be alive at once (in self.jobs or held by a scheduled entry)
MaxObjects == 4
\* job executions explored in one behaviour
MaxRuns == 3
\* public calls explored in one behaviour
MaxCalls == 3
\* clock advances explored in one behaviour
MaxAdvances == 1
\* poll-loop threads that can be alive at once
MaxWorkers == 2
\* settings.get('scheduler', 'max_results', default=100), as configured
max_results == 2
\* settings.get('actions', 'daily_limits', <category>, default=0), as configured
daily_limit_follows == 1
daily_limit_unfollows == 2
daily_limit_likes == 0
\* threads that call the rate gate of one bot
GateThreads == 2
\* direct calls of the rate gate explored in one behaviour
MaxAdmits == 6
\* two-hour ticks of the wall clock explored in one behaviour
MaxTicks == 2

Oids == 1..MaxObjects

(***************************************************************************)
(* State                                                                    *)
(***************************************************************************)
VARIABLES
    objs,           \* the JobDefinition objects: oid -> Null (no object) or <<fields>>
    jobs,           \* self.jobs: the oids of its values, in the dict's insertion order
    job_results,    \* self.job_results
    jobs_file,      \* the file self.jobs_file
    results_file,   \* the file self.results_file
    running,        \* self.running
    schedule_jobs,  \* schedule.jobs, the library's list of scheduled entries
    workers,        \* the live threads running _scheduler_loop
    caller,         \* where the thread calling the public operations is
    now,            \* the wall clock
    advances,       \* how often the clock has advanced
    action_counts,  \* InstagramBot._action_counts
    ret,            \* how the last public call ended
    last_exec,      \* what the last _run_job did
    gate            \* the calls of InstagramBot._check_rate_limit, made and in progress

vars == <<objs, jobs, job_results, jobs_file, results_file, running, schedule_jobs,
          workers, caller, now, advances, action_counts, ret, last_exec, gate>>

(***************************************************************************)
(* JobDefinition                                                            *)
(***************************************************************************)
\* `x or default` for an optional argument whose default is the empty value
OrEmpty(opt, empty) == IF opt = Null THEN empty ELSE Val(opt)

\* JobDefinition.__init__ ignoring the enabled argument
JobDefinitionAlwaysEnabled(name, function, schedule_at, args, kwargs, enabled, tags, description) ==
    [name |-> name, function |-> function, schedule_at |-> schedule_at,
     args |-> OrEmpty(args, <<>>), kwargs |-> OrEmpty(kwargs, <<>>), enabled |-> TRUE,
     tags |-> OrEmpty(tags, <<>>), description |-> OrEmpty(description, ""),
     last_run |-> Null, last_status |-> Null, next_run |-> Null, run_count |-> 0]

\* JobDefinition.__init__
JobDefinition(name, function, schedule_at, args, kwargs, enabled, tags, description) ==
    [name |-> name, function |-> function, schedule_at |-> schedule_at,
     args |-> OrEmpty(args, <<>>), kwargs |-> OrEmpty(kwargs, <<>>), enabled |-> enabled,
     tags |-> OrEmpty(tags, <<>>), description |-> OrEmpty(description, ""),
     last_run |-> Null, last_status |-> Null, next_run |-> Null, run_count |-> 0]

\* A function reference is a callable handle or a string path
Callable(target) == [callable |-> TRUE, path |-> target]
StrRef(path) == [callable |-> FALSE, path |-> path]

\* f"{function.__module__}.{function.__name__}": a module-level function gives its
\* own import path, a bound method of the bot gives a path that names no attribute
QualName(target) ==
    IF target = "bot.follow_user" THEN "src.bot.instagram.follow_user" ELSE target

\* the string paths that importlib and getattr resolve to a callable
Importable == {"actions.ok", "actions.raises"}

\* JobDefinition.to_dict
to_dict(job) ==
    [complete |-> TRUE, name |-> job.name,
     function |-> StrRef(IF job.function.callable THEN QualName(job.function.path) ELSE job.function.path),
     schedule_at |-> job.schedule_at, args |-> job.args, kwargs |-> job.kwargs,
     enabled |-> job.enabled, tags |-> job.tags, description |-> job.description,
     last_run |-> job.last_run, last_status |-> job.last_status,
     next_run |-> job.next_run, run_count |-> job.run_count]

\* from_dict without its restoring of the runtime fields
FromDictFresh(data) ==
    JobDefinition(data.name, data.function, data.schedule_at, Some(data.args), Some(data.kwargs),
                  data.enabled, Some(data.tags), Some(data.description))

\* JobDefinition.from_dict, for a dict that has the keys name, function and schedule_at
from_dict(data) ==
    [name |-> data.name, function |-> data.function, schedule_at |-> data.schedule_at,
     args |-> data.args, kwargs |-> data.kwargs, enabled |-> data.enabled,
     tags |-> data.tags, description |-> data.description,
     last_run |-> data.last_run, last_status |-> data.last_status,
     next_run |-> data.next_run, run_count |-> data.run_count]

(***************************************************************************)
(* The object heap and the job map                                          *)
(***************************************************************************)
Obj(o) == Val(objs[o])

RECURSIVE IndexOf(_, _, _)
\* the position in the oid sequence js of the job called name, 0 when there is none
IndexOf(h, js, name) ==
    IF js = <<>> THEN 0
    ELSE IF Val(h[js[Len(js)]]).name = name /\ IndexOf(h, SubSeq(js, 1, Len(js) - 1), name) = 0
         THEN Len(js)
         ELSE IndexOf(h, SubSeq(js, 1, Len(js) - 1), name)

\* name in self.jobs
HasJob(name) == IndexOf(objs, jobs, name) # 0

\* self.jobs[name]
JobOid(name) == jobs[IndexOf(objs, jobs, name)]

\* self.jobs[name] = job, job being object o of heap h: an existing key keeps its
\* place and gets the new value, a new key is added at the end
DictSet(h, js, name, o) ==
    IF IndexOf(h, js, name) # 0
    THEN [js EXCEPT ![IndexOf(h, js, name)] = o]
    ELSE Append(js, o)

\* del self.jobs[name] leaving the map as it is
DictDelKeeps(h, js, name) == js

\* del self.jobs[name]
DictDel(h, js, name) ==
    SubSeq(js, 1, IndexOf(h, js, name) - 1) \o SubSeq(js, IndexOf(h, js, name) + 1, Len(js))

\* the objects something still refers to
Refs(js, sched, ws) ==
    {js[i] : i \in 1..Len(js)} \cup {sched[i].job : i \in 1..Len(sched)}
    \cup UNION {{ws[w].pending[i].job : i \in 1..Len(ws[w].pending)} : w \in 1..Len(ws)}

\* an oid for a newly constructed object
NewOid(used) == CHOOSE o \in Oids : o \notin used /\ \A p \in Oids : p \notin used => o <= p

\* the heap h without the objects nothing refers to any more
Collect(h, js, sched, ws) == [o \in Oids |-> IF o \in Refs(js, sched, ws) THEN h[o] ELSE Null]

HasFree(used) == \E o \in Oids : o \notin used

(***************************************************************************)
(* Persistence                                                              *)
(***************************************************************************)
MissingFile == [kind |-> "missing", data |-> <<>>]
CorruptFile == [kind |-> "corrupt", data |-> <<>>]
JsonFile(data) == [kind |-> "json", data |-> data]

\* settings.get('scheduler', 'jobs', default=[]), as configured
DefaultJobs ==
    <<[name |-> "a", function |-> StrRef("actions.ok"), schedule_at |-> every_2_hours,
       args |-> Null, kwargs |-> Null, enabled |-> TRUE, tags |-> Null, description |-> Null]>>

RECURSIVE LoadDicts(_, _, _, _)
\* the loop of _load_jobs over the records of the jobs file: [h, js] are the heap and
\* the job map after it, ok tells whether it ended without an exception
LoadDicts(h, js, dicts, pinned) ==
    IF dicts = <<>> THEN [h |-> h, js |-> js, ok |-> TRUE, alloc |-> TRUE]
    ELSE IF ~Head(dicts).complete THEN [h |-> h, js |-> js, ok |-> FALSE, alloc |-> TRUE]
    ELSE LET d == Head(dicts)
             i == IndexOf(h, js, d.name)
             used == pinned \cup {js[k] : k \in (1..Len(js)) \ {i}}
         IN  IF ~HasFree(used) THEN [h |-> h, js |-> js, ok |-> FALSE, alloc |-> FALSE]
             ELSE LET o == NewOid(used)
                      h2 == [h EXCEPT ![o] = Some(from_dict(d))]
                  IN  LoadDicts(h2, IF i # 0 THEN [js EXCEPT ![i] = o] ELSE Append(js, o),
                                Tail(dicts), pinned)

RECURSIVE LoadDefaults(_, _, _, _)
\* the loop of _load_jobs over the configured default jobs
LoadDefaults(h, js, configs, pinned) ==
    IF configs = <<>> THEN [h |-> h, js |-> js, ok |-> TRUE, alloc |-> TRUE]
    ELSE LET c == Head(configs)
             i == IndexOf(h, js, c.name)
             used == pinned \cup {js[k] : k \in (1..Len(js)) \ {i}}
         IN  IF ~HasFree(used) THEN [h |-> h, js |-> js, ok |-> FALSE, alloc |-> FALSE]
             ELSE LET o == NewOid(used)
                      job == JobDefinition(c.name, c.function, c.schedule_at, c.args, c.kwargs,
                                           c.enabled, c.tags, c.description)
                      h2 == [h EXCEPT ![o] = Some(job)]
                  IN  LoadDefaults(h2, IF i # 0 THEN [js EXCEPT ![i] = o] ELSE Append(js, o),
                                   Tail(configs), pinned)

\* Scheduler._load_jobs on heap h and job map js
LoadJobs(h, js, file, pinned) ==
    LET fromFile == LoadDicts(h, js, file.data, pinned)
    IN  IF file.kind = "json" /\ (fromFile.ok \/ ~fromFile.alloc)
        THEN fromFile
        ELSE IF file.kind = "json"
             THEN LoadDefaults(fromFile.h, fromFile.js, DefaultJobs, pinned)
             ELSE LoadDefaults(h, js, DefaultJobs, pinned)

\* _save_jobs returning without writing
SaveJobsSkipped(h, js, file, io) == file

\* Scheduler._save_jobs: the file afterwards
SaveJobs(h, js, file, io) ==
    CASE io = "ok" -> JsonFile([i \in 1..Len(js) |-> to_dict(Val(h[js[i]]))])
      [] io = "open_fails" -> file
      [] io = "dump_fails" -> CorruptFile

\* JobResult.to_dict
result_to_dict(r) == r

\* Scheduler._save_results: the file afterwards
SaveResults(results, file, io) ==
    CASE io = "ok" -> JsonFile([i \in 1..Len(results) |-> result_to_dict(results[i])])
      [] io = "open_fails" -> file
      [] io = "dump_fails" -> CorruptFile

\* Scheduler._load_results: self.job_results afterwards
LoadResults(file) ==
    IF file.kind # "json" THEN <<>>
    ELSE IF Len(file.data) > max_results
         THEN SubSeq(file.data, Len(file.data) - max_results + 1, Len(file.data))
         ELSE file.data

(***************************************************************************)
(* The rate gate and the action provider                                    *)
(***************************************************************************)
Categories == {"follows", "unfollows", "likes"}

daily_limit(action_type) ==
    CASE action_type = "follows" -> daily_limit_follows
      [] action_type = "unfollows" -> daily_limit_unfollows
      [] action_type = "likes" -> daily_limit_likes

\* _check_rate_limit comparing with > where the code compares with >=
CheckRateLimitOffByOne(counts, action_type) ==
    IF counts[action_type] > daily_limit(action_type)
    THEN [allowed |-> FALSE, counts |-> counts]
    ELSE [allowed |-> TRUE, counts |-> [counts EXCEPT ![action_type] = counts[action_type] + 1]]

\* InstagramBot._check_rate_limit: whether the action is allowed, and the counters afterwards
CheckRateLimit(counts, action_type) ==
    IF counts[action_type] >= daily_limit(action_type)
    THEN [allowed |-> FALSE, counts |-> counts]
    ELSE [allowed |-> TRUE, counts |-> [counts EXCEPT ![action_type] = counts[action_type] + 1]]

\* no call of the gate made, no thread inside it
NoAdmits ==
    [calls |-> [c \in Categories |-> 0], granted |-> [c \in Categories |-> 0],
     threads |-> [t \in 1..GateThreads |-> [pc |-> "idle", cat |-> "follows", seen |-> 0]]]

\* the direct calls of the gate made so far
Admits == gate.calls["follows"] + gate.calls["unfollows"] + gate.calls["likes"]

\* InstagramBot._check_rate_limit(action_type), called by one thread at a time: the
\* call is counted, and counted as granted when it returns True
check_rate_limit(action_type) ==
    LET g == CheckRateLimit(action_counts, action_type)
    IN  /\ Admits < MaxAdmits
        /\ \A t \in 1..GateThreads : gate.threads[t].pc = "idle"
        /\ action_counts' = g.counts
        /\ gate' = [gate EXCEPT !.calls[action_type] = @ + 1,
                                !.granted[action_type] = IF g.allowed THEN @ + 1 ELSE @]
        /\ ret' = [op |-> "_check_rate_limit", name |-> action_type, raised |-> FALSE,
                   value |-> IF g.allowed THEN "True" ELSE "False", input |-> Null,
                   seq |-> ret.seq + 1]
        /\ UNCHANGED <<objs, jobs, job_results, jobs_file, results_file, running,
                       schedule_jobs, workers, caller, now, advances, last_exec>>

\* thread t enters _check_rate_limit(action_type) and has read the daily limit (line 350)
rate_limit_enter(t, action_type) ==
    /\ Admits < MaxAdmits
    /\ gate.threads[t].pc = "idle"
    /\ gate' = [gate EXCEPT !.calls[action_type] = @ + 1,
                            !.threads[t] = [pc |-> "test", cat |-> action_type, seen |-> 0]]
    /\ UNCHANGED <<objs, jobs, job_results, jobs_file, results_file, running, schedule_jobs,
                   workers, caller, now, advances, action_counts, ret, last_exec>>

\* thread t compares the counter with the limit (line 353) and returns False (line 355)
\* or goes on
rate_limit_test(t) ==
    /\ gate.threads[t].pc = "test"
    /\ gate' = [gate EXCEPT !.threads[t].pc =
                    IF action_counts[gate.threads[t].cat] >= daily_limit(gate.threads[t].cat)
                    THEN "idle" ELSE "load"]
    /\ UNCHANGED <<objs, jobs, job_results, jobs_file, results_file, running, schedule_jobs,
                   workers, caller, now, advances, action_counts, ret, last_exec>>

\* thread t evaluates self._action_counts.get(action_type, 0) + 1 (line 358, right side)
rate_limit_load(t) ==
    /\ gate.threads[t].pc = "load"
    /\ gate' = [gate EXCEPT !.threads[t].pc = "store",
                            !.threads[t].seen = action_counts[gate.threads[t].cat]]
    /\ UNCHANGED <<objs, jobs, job_results, jobs_file, results_file, running, schedule_jobs,
                   workers, caller, now, advances, action_counts, ret, last_exec>>

\* thread t stores the sum into the counter (line 358) and returns True (line 359)
rate_limit_store(t) ==
    /\ gate.threads[t].pc = "store"
    /\ action_counts' = [action_counts EXCEPT ![gate.threads[t].cat] = gate.threads[t].seen + 1]
    /\ gate' = [gate EXCEPT !.threads[t].pc = "idle", !.granted[gate.threads[t].cat] = @ + 1]
    /\ UNCHANGED <<objs, jobs, job_results, jobs_file, results_file, running, schedule_jobs,
                   workers, caller, now, advances, ret, last_exec>>

\* InstagramBot.follow_user: its return value and the counters afterwards; browser_ok
\* tells whether the browser steps succeed
FollowUser(counts, browser_ok) ==
    LET admitted == CheckRateLimit(counts, "follows")
    IN  IF ~admitted.allowed
        THEN [raised |-> FALSE, value |-> "False", counts |-> admitted.counts, rejected |-> TRUE]
        ELSE [raised |-> FALSE, value |-> IF browser_ok THEN "True" ELSE "False",
              counts |-> admitted.counts, rejected |-> FALSE]

\* Scheduler._resolve_function: whether it returns a callable rather than raising ValueError
Resolvable(function_ref) == function_ref.callable \/ function_ref.path \in Importable

\* the call of a job's function if every reference resolved to a function that returns
InvokeAlwaysReturns(function_ref, counts, browser_ok) ==
    [raised |-> FALSE, value |-> "None", counts |-> counts, rejected |-> FALSE]

\* func(*job.args, **job.kwargs) after _resolve_function: what the call returns or raises
Invoke(function_ref, counts, browser_ok) ==
    IF ~Resolvable(function_ref)
    THEN [raised |-> TRUE, value |-> "Could not resolve function", counts |-> counts, rejected |-> FALSE]
    ELSE CASE function_ref.path = "actions.ok" ->
                [raised |-> FALSE, value |-> "ok", counts |-> counts, rejected |-> FALSE]
           [] function_ref.path = "actions.raises" ->
                [raised |-> TRUE, value |-> "boom", counts |-> counts, rejected |-> FALSE]
           [] function_ref.path = "bot.follow_user" -> FollowUser(counts, browser_ok)

\* RanJob with last_run left as it was
RanJobKeepsLastRun(job, out, t) ==
    [job EXCEPT !.last_status = Some(IF out.raised THEN "failed" ELSE "success"),
                !.run_count = @ + 1]

(***************************************************************************)
(* Job execution                                                            *)
(***************************************************************************)
\* RanJob with the failure branch forgetting to count the run
RanJobUncountedFailure(job, out, t) ==
    [job EXCEPT !.last_run = Some(t),
                !.last_status = Some(IF out.raised THEN "failed" ELSE "success"),
                !.run_count = IF out.raised THEN @ ELSE @ + 1]

\* the job's runtime fields after a run that started at instant t (lines 389-392, 400-403)
RanJob(job, out, t) ==
    [job EXCEPT !.last_run = Some(t),
                !.last_status = Some(IF out.raised THEN "failed" ELSE "success"),
                !.run_count = @ + 1]

\* the JobResult of a run if it were appended as it was created, without complete()
NewResultPending(job, out, t) ==
    [job_name |-> job.name, start_time |-> t, end_time |-> Null, success |-> Null,
     result |-> Null, error |-> Null]

\* the JobResult of a run: JobResult(job.name, start_time) completed with the outcome
NewResult(job, out, t) ==
    [job_name |-> job.name, start_time |-> t, end_time |-> Some(t),
     success |-> Some(~out.raised),
     result |-> IF out.raised THEN Null ELSE Some(out.value),
     error |-> IF out.raised THEN Some(out.value) ELSE Null]

\* the append of _run_job left out
AppendResultDropped(results, r) == results

\* self.job_results.append(result)
AppendResult(results, r) == Append(results, r)

\* Scheduler._run_job(job) for the job object o, called by the poll loop ("poll") or
\* by run_job_now ("now").  The caller states jobs', schedule_jobs' and workers'.
run_job(o, by, browser_ok, ioj, ior) ==
    LET out == Invoke(Obj(o).function, action_counts, browser_ok)
        h2 == [objs EXCEPT ![o] = Some(RanJob(Obj(o), out, now))]
    IN  /\ Len(job_results) < MaxRuns
        /\ job_results' = AppendResult(job_results, NewResult(Obj(o), out, now))
        /\ action_counts' = out.counts
        /\ jobs_file' = SaveJobs(h2, jobs', jobs_file, ioj)
        /\ results_file' = SaveResults(job_results', results_file, ior)
        /\ last_exec' = [name |-> Obj(o).name, by |-> by, enabled |-> Obj(o).enabled,
                         rejected |-> out.rejected, raised |-> out.raised,
                         in_map |-> o \in {jobs[i] : i \in 1..Len(jobs)},
                         before |-> Obj(o), after |-> Val(h2[o])]
        /\ objs' = Collect(h2, jobs', schedule_jobs', workers')

(***************************************************************************)
(* The public store operations, called while the caller is not inside stop() *)
(***************************************************************************)
\* the caller is not inside another public operation
CanCall == caller = "idle" /\ ret.seq < MaxCalls

\* how a public call ended: ret.seq counts the calls that have ended
Returned(op, name, value, input) ==
    [op |-> op, name |-> name, raised |-> FALSE, value |-> value, input |-> input,
     seq |-> ret.seq + 1]
Raised(op, name, value, input) ==
    [op |-> op, name |-> name, raised |-> TRUE, value |-> value, input |-> input,
     seq |-> ret.seq + 1]

\* Scheduler.get_job
get_job(name) == IF HasJob(name) THEN Some(Obj(JobOid(name))) ELSE Null

\* add_job without its check for an existing name
AddJobNeverRaises(name) == FALSE

\* the condition under which add_job raises ValueError (line 444)
AddJobRaises(name) == HasJob(name)

\* Scheduler.add_job
add_job(name, function, schedule_at, args, kwargs, enabled, tags, description, io) ==
    LET input == [function |-> Some(function), schedule_at |-> Some(schedule_at), args |-> args,
                  kwargs |-> kwargs, enabled |-> Some(enabled), tags |-> tags,
                  description |-> description]
        used == Refs(jobs, schedule_jobs, workers)
    IN  /\ CanCall
        /\ IF AddJobRaises(name)
           THEN /\ ret' = Raised("add_job", name, "ValueError", Some(input))
                /\ UNCHANGED <<objs, jobs, jobs_file>>
           ELSE /\ HasFree(used)
                /\ LET o == NewOid(used)
                       job == JobDefinition(name, function, schedule_at, args, kwargs, enabled,
                                            tags, description)
                       h2 == [objs EXCEPT ![o] = Some(job)]
                   IN  /\ jobs' = DictSet(h2, jobs, name, o)
                       /\ objs' = Collect(h2, jobs', schedule_jobs, workers)
                       /\ jobs_file' = SaveJobs(objs', jobs', jobs_file, io)
                /\ ret' = Returned("add_job", name, "job", Some(input))
        /\ UNCHANGED <<job_results, results_file, running, schedule_jobs, workers, caller,
                       now, advances, action_counts, last_exec>>
        /\ UNCHANGED gate

\* Scheduler.remove_job
remove_job(name, io) ==
    /\ CanCall
    /\ IF ~HasJob(name)
       THEN /\ ret' = Returned("remove_job", name, "False", Null)
            /\ UNCHANGED <<objs, jobs, jobs_file>>
       ELSE /\ jobs' = DictDel(objs, jobs, name)
            /\ objs' = Collect(objs, jobs', schedule_jobs, workers)
            /\ jobs_file' = SaveJobs(objs', jobs', jobs_file, io)
            /\ ret' = Returned("remove_job", name, "True", Null)
    /\ UNCHANGED <<job_results, results_file, running, schedule_jobs, workers, caller,
                   now, advances, action_counts, last_exec>>
    /\ UNCHANGED gate

\* update_job's assignments if they also reset the job's runtime fields
UpdatedResetsRuntime(job, input) ==
    [job EXCEPT !.enabled = IF input.enabled # Null THEN Val(input.enabled) ELSE @,
                !.next_run = Null, !.run_count = 0]

\* the fields of job after update_job's assignments (lines 528-548); a field that is
\* not supplied is Null
Updated(job, input) ==
    [job EXCEPT !.function = IF input.function # Null THEN Val(input.function) ELSE @,
                !.schedule_at = IF input.schedule_at # Null THEN Val(input.schedule_at) ELSE @,
                !.args = IF input.args # Null THEN Val(input.args) ELSE @,
                !.kwargs = IF input.kwargs # Null THEN Val(input.kwargs) ELSE @,
                !.enabled = IF input.enabled # Null THEN Val(input.enabled) ELSE @,
                !.tags = IF input.tags # Null THEN Val(input.tags) ELSE @,
                !.description = IF input.description # Null THEN Val(input.description) ELSE @]

\* Scheduler.update_job
update_job(name, input, io) ==
    /\ CanCall
    /\ IF ~HasJob(name)
       THEN /\ ret' = Raised("update_job", name, "ValueError", Some(input))
            /\ UNCHANGED <<objs, jobs_file>>
       ELSE /\ objs' = [objs EXCEPT ![JobOid(name)] = Some(Updated(Obj(JobOid(name)), input))]
            /\ jobs_file' = SaveJobs(objs', jobs, jobs_file, io)
            /\ ret' = Returned("update_job", name, "job", Some(input))
    /\ UNCHANGED <<jobs, job_results, results_file, running, schedule_jobs, workers, caller,
                   now, advances, action_counts, last_exec>>
    /\ UNCHANGED gate

RECURSIVE Filter(_, _, _, _)
\* the loop of get_job_results over results, most recent first; job_name and
\* success_only are optional, limit is 0 when not given
Filter(results, job_name, success_only, limit) ==
    IF results = <<>> THEN <<>>
    ELSE LET r == results[Len(results)]
             rest == SubSeq(results, 1, Len(results) - 1)
         IN  IF job_name # Null /\ Val(job_name) # "" /\ r.job_name # Val(job_name)
             THEN Filter(rest, job_name, success_only, limit)
             ELSE IF success_only # Null /\ r.success # success_only
                  THEN Filter(rest, job_name, success_only, limit)
                  ELSE IF limit = 1 \/ limit < 0 THEN <<r>>
                       ELSE <<r>> \o Filter(rest, job_name, success_only,
                                            IF limit = 0 THEN 0 ELSE limit - 1)

\* Scheduler.get_job_results
get_job_results(job_name, success_only, limit) == Filter(job_results, job_name, success_only, limit)

\* a caller's call of get_job_results: what it returns is recorded in ret.value
get_job_results_call(job_name, success_only, limit) ==
    /\ CanCall
    /\ ret' = Returned("get_job_results", "", get_job_results(job_name, success_only, limit),
                       Some([job_name |-> job_name, success_only |-> success_only,
                             limit |-> limit]))
    /\ UNCHANGED <<objs, jobs, job_results, jobs_file, results_file, running, schedule_jobs,
                   workers, caller, now, advances, action_counts, last_exec>>
    /\ UNCHANGED gate

\* Scheduler.run_job_now
run_job_now(name, browser_ok, ioj, ior) ==
    /\ CanCall
    /\ IF ~HasJob(name)
       THEN /\ ret' = Returned("run_job_now", name, "None", Null)
            /\ UNCHANGED <<objs, job_results, jobs_file, results_file, action_counts, last_exec>>
            /\ UNCHANGED <<jobs, schedule_jobs, workers>>
       ELSE /\ UNCHANGED <<jobs, schedule_jobs, workers>>
            /\ run_job(JobOid(name), "now", browser_ok, ioj, ior)
            /\ ret' = Returned("run_job_now", name, "result", Null)
    /\ UNCHANGED <<running, caller, now, advances>>
    /\ UNCHANGED gate

(***************************************************************************)
(* Scheduling                                                               *)
(***************************************************************************)
\* a fresh identity for a library job object
NextEid(sched) ==
    IF sched = <<>> THEN 1
    ELSE 1 + (CHOOSE m \in {sched[i].eid : i \in 1..Len(sched)} :
                \A i \in 1..Len(sched) : sched[i].eid <= m)

\* scheduled_job.do(self._run_job, job) at instant t, for the library job whose identity
\* is eid: the object is bound to job object o, its next run is computed, and it is
\* appended to schedule.jobs (again, when it is in the list already)
Do(sched, entry, o, t) ==
    LET bound == [entry EXCEPT !.job = o, !.next_run = NextRunAfter(entry, t)]
    IN  Append([i \in 1..Len(sched) |-> IF sched[i].eid = entry.eid THEN bound ELSE sched[i]],
               bound)

\* the library job object a parse result creates
NewEntry(p, eid) ==
    [eid |-> eid, interval |-> p.interval, unit |-> p.unit, at_time |-> p.at_time,
     start_day |-> p.start_day, job |-> 0, next_run |-> 0, last_run |-> Null]

\* whether a job of _schedule_all_jobs' loop is passed over (line 670)
Skipped(job) == ~job.enabled

RECURSIVE ScheduleFrom(_, _, _, _, _, _)
\* the loop of _schedule_all_jobs from position i of the job map on: cur is the local
\* variable scheduled_job (Null while it is unbound), t the instant of the call
ScheduleFrom(h, js, i, sched, cur, t) ==
    IF i > Len(js) THEN [h |-> h, sched |-> sched]
    ELSE LET job == Val(h[js[i]])
             p == ParseSchedule(job.schedule_at)
         IN  IF Skipped(job) \/ p.kind \in {"continue", "raise"}
             THEN ScheduleFrom(h, js, i + 1, sched, cur, t)
             ELSE IF p.kind = "fallthrough" /\ cur = Null
                  \* scheduled_job is unbound: the NameError is caught and logged
                  THEN ScheduleFrom(h, js, i + 1, sched, cur, t)
                  ELSE LET entry == IF p.kind = "new" THEN NewEntry(p, NextEid(sched)) ELSE Val(cur)
                           sched2 == Do(sched, entry, js[i], t)
                           done == sched2[Len(sched2)]
                           h2 == [h EXCEPT ![js[i]] = Some([job EXCEPT !.next_run = Some(done.next_run)])]
                       IN  ScheduleFrom(h2, js, i + 1, sched2, Some(done), t)

\* Scheduler._schedule_all_jobs at instant t: the heap and schedule.jobs afterwards
ScheduleAllJobs(h, js, t) == ScheduleFrom(h, js, 1, <<>>, Null, t)

\* schedule.clear() leaves the entries a poll loop has collected without their place in
\* schedule.jobs
Detach(ws) ==
    [w \in 1..Len(ws) |->
        [ws[w] EXCEPT !.pending = [i \in 1..Len(ws[w].pending) |->
                                      [ws[w].pending[i] EXCEPT !.eid = Null]]]]

\* a poll-loop thread: keys is the job map as it was when the thread began to iterate
\* over it inside _save_jobs, Null while it is not iterating
NewWorker == [pc |-> "top", pending |-> <<>>, current |-> TRUE, keys |-> Null]

\* the threads after threading.Thread(target=self._scheduler_loop).start()
Spawn(ws) == Append([w \in 1..Len(ws) |-> [ws[w] EXCEPT !.current = FALSE]], NewWorker)

\* start() without its check of self.running
StartNeverNoop == FALSE

\* whether start() returns at once (lines 768-770)
StartIsNoop == running

\* the part of start() after the check of self.running
StartBody(h, js, ws) ==
    LET s == ScheduleAllJobs(h, js, now)
    IN  /\ schedule_jobs' = s.sched
        /\ running' = TRUE
        /\ workers' = Spawn(ws)
        /\ objs' = Collect(s.h, js, schedule_jobs', workers')

\* Scheduler.start
start ==
    /\ CanCall
    /\ IF StartIsNoop
       THEN /\ ret' = Returned("start", "", "already running", Null)
            /\ UNCHANGED <<objs, running, schedule_jobs, workers>>
       ELSE /\ Len(workers) < MaxWorkers
            /\ StartBody(objs, jobs, Detach(workers))
            /\ ret' = Returned("start", "", "None", Null)
    /\ UNCHANGED <<jobs, job_results, jobs_file, results_file, caller, now, advances,
                   action_counts, last_exec>>
    /\ UNCHANGED gate

\* Scheduler.stop, up to the join of the poll-loop thread
stop ==
    /\ CanCall
    /\ IF ~running
       THEN /\ ret' = Returned("stop", "", "not running", Null)
            /\ UNCHANGED <<running, caller>>
       ELSE /\ running' = FALSE
            /\ caller' = "stop_join"
            /\ UNCHANGED ret
    /\ UNCHANGED <<objs, jobs, job_results, jobs_file, results_file, schedule_jobs, workers,
                   now, advances, action_counts, last_exec>>
    /\ UNCHANGED gate

\* self.scheduler_thread.join(timeout=5) returns: the thread has ended, or it is inside a
\* job that outlasts the timeout
JoinReturns(timeout) ==
    \/ \A w \in 1..Len(workers) : ~workers[w].current
    \/ timeout /\ \E w \in 1..Len(workers) : workers[w].current /\ workers[w].pc = "dispatch"

\* Scheduler.stop, from the return of the join on
stop_end(timeout) ==
    /\ caller = "stop_join"
    /\ JoinReturns(timeout)
    /\ schedule_jobs' = <<>>
    /\ workers' = Detach(workers)
    /\ objs' = Collect(objs, jobs, schedule_jobs', workers')
    /\ caller' = "idle"
    /\ ret' = Returned("stop", "", "None", Null)
    /\ UNCHANGED <<jobs, job_results, jobs_file, results_file, running, now, advances,
                   action_counts, last_exec>>
    /\ UNCHANGED gate

\* the part of restart() after stop(): _load_jobs() and start(), which finds
\* self.running false
RestartBody(ws) ==
    LET l == LoadJobs(objs, jobs, jobs_file, Refs(<<>>, <<>>, ws))
    IN  /\ l.alloc
        /\ Len(ws) < MaxWorkers
        /\ jobs' = l.js
        /\ StartBody(l.h, l.js, ws)
        /\ caller' = "idle"
        /\ ret' = Returned("restart", "", "None", Null)

\* Scheduler.restart: of an engine that is not running all of it, of a running one the
\* part up to the join inside stop()
restart ==
    /\ CanCall
    /\ IF ~running
       THEN /\ RestartBody(Detach(workers))
       ELSE /\ running' = FALSE
            /\ caller' = "restart_join"
            /\ UNCHANGED <<objs, jobs, schedule_jobs, workers, ret>>
    /\ UNCHANGED <<job_results, jobs_file, results_file, now, advances, action_counts, last_exec>>
    /\ UNCHANGED gate

\* Scheduler.restart, from the return of the join inside stop() on
restart_end(timeout) ==
    /\ caller = "restart_join"
    /\ JoinReturns(timeout)
    /\ RestartBody(Detach(workers))
    /\ UNCHANGED <<job_results, jobs_file, results_file, now, advances, action_counts, last_exec>>
    /\ UNCHANGED gate

(***************************************************************************)
(* The poll loop (_scheduler_loop) of worker thread w                       *)
(***************************************************************************)
\* should_run if an entry were due only once its time has passed
ShouldRunLate(entry) == now > entry.next_run

\* Job.should_run
ShouldRun(entry) == now >= entry.next_run

RECURSIVE Insert(_, _)
\* e put into the list s, sorted by next_run, behind the entries that are not later
Insert(s, e) ==
    IF s = <<>> THEN <<e>>
    ELSE IF s[Len(s)].next_run <= e.next_run THEN Append(s, e)
         ELSE Append(Insert(SubSeq(s, 1, Len(s) - 1), e), s[Len(s)])

RECURSIVE Sorted(_)
\* sorted(entries): by next_run, entries of equal next_run in their order
Sorted(s) == IF s = <<>> THEN <<>> ELSE Insert(Sorted(SubSeq(s, 1, Len(s) - 1)), s[Len(s)])

\* the entries run_pending is going to run, in its order
Runnable == Sorted(SelectSeq(schedule_jobs, ShouldRun))

\* the loop tests self.running, finds it true, and run_pending collects the due entries
loop_run_pending(w) ==
    /\ w \in 1..Len(workers)
    /\ workers[w].pc = "top"
    /\ running
    /\ Runnable # <<>>
    /\ workers' = [workers EXCEPT ![w].pc = "dispatch",
                                  ![w].pending = [i \in 1..Len(Runnable) |->
                                        [eid |-> Some(Runnable[i].eid), job |-> Runnable[i].job]]]
    /\ UNCHANGED <<objs, jobs, job_results, jobs_file, results_file, running, schedule_jobs,
                   caller, now, advances, action_counts, ret, last_exec>>
    /\ UNCHANGED gate

\* run_pending giving up the entries it has collected once one of them has run
StillCollectedNone(pending) == <<>>

\* the entries run_pending has still to run once self._run_job(job) has returned for
\* the first of them; _run_job returns also when the action raised (lines 396-405)
StillCollected(pending) == Tail(pending)

\* Job.run after the job function has returned: last_run and the next run are set
AfterRun(entry, t) == [entry EXCEPT !.last_run = Some(t), !.next_run = NextRunAfter(entry, t)]

\* run_pending runs the next entry it has collected: the entry's job function is
\* self._run_job(job)
loop_dispatch(w, browser_ok, ioj, ior) ==
    /\ w \in 1..Len(workers)
    /\ workers[w].pc = "dispatch"
    /\ LET e == Head(workers[w].pending)
       IN  /\ schedule_jobs' = [i \in 1..Len(schedule_jobs) |->
                                  IF Some(schedule_jobs[i].eid) = e.eid
                                  THEN AfterRun(schedule_jobs[i], now) ELSE schedule_jobs[i]]
           /\ workers' = [workers EXCEPT ![w].pending = StillCollected(@),
                                         ![w].pc = IF StillCollected(workers[w].pending) = <<>>
                                                   THEN "top" ELSE "dispatch"]
           /\ UNCHANGED jobs
           /\ run_job(e.job, "poll", browser_ok, ioj, ior)
    /\ UNCHANGED <<running, caller, now, advances, ret>>
    /\ UNCHANGED gate

\* loop_dispatch up to the point where _save_jobs begins to iterate over
\* self.jobs.values() (line 274): the job has run and its result is appended
loop_dispatch_begin(w, browser_ok) ==
    /\ w \in 1..Len(workers)
    /\ workers[w].pc = "dispatch"
    /\ workers' = [workers EXCEPT ![w].pc = "saving", ![w].keys = Some(jobs)]
    /\ UNCHANGED <<jobs, schedule_jobs>>
    /\ run_job(Head(workers[w].pending).job, "poll", browser_ok, "open_fails", "open_fails")
    /\ UNCHANGED <<running, caller, now, advances, ret>>
    /\ UNCHANGED gate

\* how the iteration of _save_jobs can end: over a map that is as it was, the file is
\* written; over a map that was changed meanwhile, the dict iterator raises
\* RuntimeError, which _save_jobs logs, or it goes unnoticed and the file is written
IterationEnds(keys) == IF jobs = keys THEN {"ok"} ELSE {"ok", "open_fails"}

\* loop_dispatch from the end of that iteration on: the two files are written, Job.run
\* sets the entry's next run, and run_pending goes on
loop_dispatch_save(w) ==
    /\ w \in 1..Len(workers)
    /\ workers[w].pc = "saving"
    /\ \E io \in IterationEnds(Val(workers[w].keys)) :
         jobs_file' = SaveJobs(objs, jobs, jobs_file, io)
    /\ results_file' = SaveResults(job_results, results_file, "ok")
    /\ schedule_jobs' = [i \in 1..Len(schedule_jobs) |->
                           IF Some(schedule_jobs[i].eid) = Head(workers[w].pending).eid
                           THEN AfterRun(schedule_jobs[i], now) ELSE schedule_jobs[i]]
    /\ workers' = [workers EXCEPT ![w].pending = StillCollected(@),
                                  ![w].keys = Null,
                                  ![w].pc = IF StillCollected(workers[w].pending) = <<>>
                                            THEN "top" ELSE "dispatch"]
    /\ UNCHANGED <<objs, jobs, job_results, running, caller, now, advances, action_counts,
                   ret, last_exec>>
    /\ UNCHANGED gate

\* the loop tests self.running, finds it false, and the thread ends
loop_exit(w) ==
    /\ w \in 1..Len(workers)
    /\ workers[w].pc = "top"
    /\ ~running
    /\ workers' = SubSeq(workers, 1, w - 1) \o SubSeq(workers, w + 1, Len(workers))
    /\ UNCHANGED <<objs, jobs, job_results, jobs_file, results_file, running, schedule_jobs,
                   caller, now, advances, action_counts, ret, last_exec>>
    /\ UNCHANGED gate

\* the thread of a tick body that raised leaving the loop
TickRaisedEndsThread(ws, w) == SubSeq(ws, 1, w - 1) \o SubSeq(ws, w + 1, Len(ws))

\* the threads after the tick body of thread w has raised outside a job: the except
\* branch of the loop logs the exception and sleeps (lines 760-762); the entries
\* run_pending had collected are lost with its stack frame
TickRaised(ws, w) == [ws EXCEPT ![w].pc = "backoff", ![w].pending = <<>>]

\* schedule.run_pending() raises in thread w, before a job or between two jobs
loop_tick_raises(w) ==
    /\ w \in 1..Len(workers)
    /\ \/ workers[w].pc = "top" /\ running
       \/ workers[w].pc = "dispatch"
    /\ workers' = TickRaised(workers, w)
    /\ UNCHANGED <<objs, jobs, job_results, jobs_file, results_file, running, schedule_jobs,
                   caller, now, advances, action_counts, ret, last_exec>>
    /\ UNCHANGED gate

\* time.sleep(5) of the except branch returns: thread w is back at the loop's test
loop_backoff_end(w) ==
    /\ w \in 1..Len(workers)
    /\ workers[w].pc = "backoff"
    /\ workers' = [workers EXCEPT ![w].pc = "top"]
    /\ UNCHANGED <<objs, jobs, job_results, jobs_file, results_file, running, schedule_jobs,
                   caller, now, advances, action_counts, ret, last_exec>>
    /\ UNCHANGED gate

\* the wall clock reaches the next multiple of two hours, MaxTicks times at most
clock_tick ==
    /\ now < MaxTicks * 2 * Hour
    /\ now' = now + 2 * Hour
    /\ UNCHANGED <<objs, jobs, job_results, jobs_file, results_file, running, schedule_jobs,
                   workers, caller, advances, action_counts, ret, last_exec>>
    /\ UNCHANGED gate

\* the wall clock moves on by d seconds
advance(d) ==
    /\ advances < MaxAdvances
    /\ now' = now + d
    /\ advances' = advances + 1
    /\ UNCHANGED <<objs, jobs, job_results, jobs_file, results_file, running, schedule_jobs,
                   workers, caller, action_counts, ret, last_exec>>
    /\ UNCHANGED gate

(***************************************************************************)
(* Construction                                                             *)
(***************************************************************************)
NoObjects == [o \in Oids |-> Null]
\* the value of last_exec's job fields before any job has run
NoJob == JobDefinition("", StrRef(""), <<>>, Null, Null, FALSE, Null, Null)

\* Scheduler.__init__ with the two files as they are found, at instant t
Constructed(jf, rf, t) ==
    LET l == LoadJobs(NoObjects, <<>>, jf, {})
    IN  /\ jobs_file = jf
        /\ results_file = rf
        /\ objs = l.h
        /\ jobs = l.js
        /\ job_results = LoadResults(rf)
        /\ running = FALSE
        /\ schedule_jobs = <<>>
        /\ workers = <<>>
        /\ caller = "idle"
        /\ now = t
        /\ advances = 0
        /\ action_counts = [c \in Categories |-> 0]
        /\ gate = NoAdmits
        /\ ret = [op |-> "__init__", name |-> "", raised |-> FALSE, value |-> "None",
                  input |-> Null, seq |-> 0]
        /\ last_exec = [name |-> "", by |-> "none", enabled |-> FALSE, rejected |-> FALSE,
                        raised |-> FALSE, in_map |-> FALSE, before |-> NoJob, after |-> NoJob]

(***************************************************************************)
(* The engine with its store: every public operation and the poll loop      *)
(***************************************************************************)
Names == {"a", "b"}
Functions == {Callable("actions.ok"), Callable("actions.raises"), Callable("bot.follow_user")}
Cadences == {every_2_hours}
NoInput == [function |-> Null, schedule_at |-> Null, args |-> Null, kwargs |-> Null,
            enabled |-> Null, tags |-> Null, description |-> Null]
Updates == {[NoInput EXCEPT !.enabled = Some(FALSE)], [NoInput EXCEPT !.enabled = Some(TRUE)],
            [NoInput EXCEPT !.schedule_at = Some(hourly)]}
Steps == {2 * Hour}

Init == Constructed(MissingFile, MissingFile, 0)

AddJob == \E n \in Names, f \in Functions, c \in Cadences, en \in BOOLEAN :
            add_job(n, f, c, Null, Null, en, Null, Null, "ok")
RemoveJob == \E n \in Names : remove_job(n, "ok")
UpdateJob == \E n \in Names, u \in Updates : update_job(n, u, "ok")
RunJobNow == \E n \in Names, b \in BOOLEAN : run_job_now(n, b, "ok", "ok")
Start == start
Stop == stop
StopEnd == \E timeout \in BOOLEAN : stop_end(timeout)
Restart == restart
RestartEnd == \E timeout \in BOOLEAN : restart_end(timeout)
LoopRunPending == \E w \in 1..MaxWorkers : loop_run_pending(w)
LoopDispatch == \E w \in 1..MaxWorkers, b \in BOOLEAN : loop_dispatch(w, b, "ok", "ok")
LoopExit == \E w \in 1..MaxWorkers : loop_exit(w)
Advance == \E d \in Steps : advance(d)

Next ==
    \/ AddJob \/ RemoveJob \/ UpdateJob \/ RunJobNow
    \/ Start \/ Stop \/ StopEnd \/ Restart \/ RestartEnd
    \/ LoopRunPending \/ LoopDispatch \/ LoopExit \/ Advance

Spec == Init /\ [][Next]_vars

(***************************************************************************)
(* Properties of the engine with its store                                  *)
(***************************************************************************)
Last(seq) == seq[Len(seq)]

\* the step is the return of a public call of operation op
CallReturns(op) == ret'.seq = ret.seq + 1 /\ ret'.op = op

\* C1: a run whose action the rate gate rejected is recorded as a failure: its
\* JobResult has success = false and the job's last_status is 'failed'.
C1_RateLimitedRunFails ==
    last_exec.rejected =>
        /\ Last(job_results).success = Some(FALSE)
        /\ last_exec.after.last_status = Some("failed")

\* C2: the Result Log never holds more than the configured capacity of results.
C2_ResultLogCapped == Len(job_results) <= max_results

\* C3: run_job_now(X) on an existing job whose action raises returns to its caller
\* without an exception, increases X's run_count by exactly 1, sets last_status to
\* 'failed', and get_job_results(X, limit=1) starts with a result whose error is set.
C3_RunNowOfRaisingJob ==
    [][\A n \in Names :
        (/\ CallReturns("run_job_now")
         /\ ret'.name = n
         /\ HasJob(n)
         /\ Invoke(Obj(JobOid(n)).function, action_counts, TRUE).raised)
        => (/\ ~ret'.raised
            /\ ret'.value = "result"
            /\ get_job(n)' # Null
            /\ Val(get_job(n)').run_count = Val(get_job(n)).run_count + 1
            /\ Val(get_job(n)').last_status = Some("failed")
            /\ get_job_results(Some(n), Null, 1)' # <<>>
            /\ get_job_results(Some(n), Null, 1)'[1].error # Null)]_vars

\* run_job_now has just run a job whose action raised
C3_Witness ==
    /\ ret.op = "run_job_now" /\ ret.value = "result"
    /\ last_exec.by = "now" /\ last_exec.raised /\ last_exec.name = ret.name
    /\ Last(job_results).job_name = ret.name

\* C6: the poll loop never dispatches a job whose enabled flag is false at the
\* moment of dispatch.
C6_NoDisabledDispatch == last_exec.by = "poll" => last_exec.enabled

\* C10: start() on a running engine raises nothing, starts no thread and leaves the
\* running flag, the scheduled entries and the job map as they are.
C10_StartWhileRunningIsNoop ==
    [][(CallReturns("start") /\ running)
       => (/\ ~ret'.raised
           /\ UNCHANGED <<running, schedule_jobs, workers, jobs, objs, jobs_file>>)]_vars

\* start() has just returned from its check of self.running, the engine running
C10_Witness ==
    /\ ret.op = "start" /\ ret.value = "already running"
    /\ running /\ Len(workers) = 1 /\ schedule_jobs # <<>>

(***************************************************************************)
(* The job store alone: add_job, remove_job, update_job and run_job_now of  *)
(* an engine that is never started, with every definition field supplied,   *)
(* left out, or supplied empty                                              *)
(***************************************************************************)
StoreInputs ==
    {[function |-> Some(Callable("actions.ok")), schedule_at |-> Some(every_2_hours),
      args |-> Null, kwargs |-> Null, enabled |-> Some(TRUE), tags |-> Null, description |-> Null],
     [function |-> Some(StrRef("actions.raises")), schedule_at |-> Some(daily_at_0930),
      args |-> Some(<<"x">>), kwargs |-> Some(<<<<"k", "v">>>>), enabled |-> Some(FALSE),
      tags |-> Some(<<"t">>), description |-> Some("d")],
     [function |-> Some(Callable("bot.follow_user")), schedule_at |-> Some(hourly),
      args |-> Some(<<>>), kwargs |-> Some(<<>>), enabled |-> Some(TRUE),
      tags |-> Some(<<>>), description |-> Some("")]}

StoreUpdates ==
    {[NoInput EXCEPT !.enabled = Some(FALSE)],
     [NoInput EXCEPT !.args = Some(<<"y">>), !.description = Some("e"), !.tags = Some(<<>>)],
     [NoInput EXCEPT !.function = Some(StrRef("actions.ok")), !.schedule_at = Some(daily_at_0930)]}

StoreInit == \E jf \in {MissingFile, JsonFile(<<>>)} : Constructed(jf, MissingFile, 0)

StoreAddJob == \E n \in Names, i \in StoreInputs :
    add_job(n, Val(i.function), Val(i.schedule_at), i.args, i.kwargs, Val(i.enabled), i.tags,
            i.description, "ok")
StoreRemoveJob == \E n \in Names : remove_job(n, "ok")
StoreUpdateJob == \E n \in Names, u \in StoreUpdates : update_job(n, u, "ok")
StoreRunJobNow == \E n \in Names, b \in BOOLEAN : run_job_now(n, b, "ok", "ok")

StoreNext == StoreAddJob \/ StoreRemoveJob \/ StoreUpdateJob \/ StoreRunJobNow

SpecStore == StoreInit /\ [][StoreNext]_vars

\* C4: add_job of a name that is not in the store returns normally, and get_job of
\* that name then returns a job with the name, action, cadence, args, kwargs, enabled,
\* tags and description that were passed (an argument left out being its empty
\* default), run_count 0 and no last run; every other job is as it was.
C4_AddThenGet ==
    [][\A n \in Names :
        (CallReturns("add_job") /\ ret'.name = n /\ ~HasJob(n))
        => LET i == Val(ret'.input)
               j == Val(get_job(n)')
           IN  /\ ~ret'.raised
               /\ get_job(n)' # Null
               /\ j.name = n
               /\ j.function = Val(i.function)
               /\ j.schedule_at = Val(i.schedule_at)
               /\ j.args = (IF i.args = Null THEN <<>> ELSE Val(i.args))
               /\ j.kwargs = (IF i.kwargs = Null THEN <<>> ELSE Val(i.kwargs))
               /\ j.enabled = Val(i.enabled)
               /\ j.tags = (IF i.tags = Null THEN <<>> ELSE Val(i.tags))
               /\ j.description = (IF i.description = Null THEN "" ELSE Val(i.description))
               /\ j.run_count = 0 /\ j.last_run = Null /\ j.last_status = Null
               /\ \A m \in Names \ {n} : get_job(m)' = get_job(m)]_vars

\* add_job has just added a disabled job with every field supplied next to another job
C4_Witness ==
    /\ ret.op = "add_job" /\ ~ret.raised
    /\ Val(ret.input).args = Some(<<"x">>)
    /\ get_job(ret.name) # Null /\ ~Val(get_job(ret.name)).enabled
    /\ Len(jobs) = 2

\* the names of the job map are pairwise different
UniqueNames == \A i, k \in 1..Len(jobs) : Obj(jobs[i]).name = Obj(jobs[k]).name => i = k

\* C5: add_job of a name that is in the store raises the duplicate-job ValueError and
\* leaves the existing job, the rest of the job map and the jobs file as they were;
\* the names in the job map are unique in every reachable state.
C5_DuplicateAddRejected ==
    /\ []UniqueNames
    /\ [][\A n \in Names :
            (CallReturns("add_job") /\ ret'.name = n /\ HasJob(n))
            => (/\ ret'.raised /\ ret'.value = "ValueError"
                /\ UNCHANGED <<jobs, objs, jobs_file>>
                /\ \A m \in Names : get_job(m)' = get_job(m))]_vars

\* add_job has just raised for the name of a job that has run once
C5_Witness ==
    /\ ret.op = "add_job" /\ ret.raised
    /\ get_job(ret.name) # Null /\ Val(get_job(ret.name)).run_count = 1
    /\ jobs_file.kind = "json" /\ Len(jobs_file.data) = Len(jobs)

(***************************************************************************)
(* Scheduling of persisted jobs: an engine constructed over a jobs file of  *)
(* two jobs with cadences inside and outside the grammar, then started,     *)
(* stopped, restarted and polled                                            *)
(***************************************************************************)
AllCadences ==
    {every_2_hours, every_1_day, Every_2_Hours_cased, every_2_HOURS_unit_cased, daily_at_0930,
     DAILY_AT_0930_cased, weekly_on_monday_at_0800, weekly_on_Monday_at_0800_day_cased,
     Weekly_On_Monday_At_0800_cased, weekly_on_saturday_at_0800, every_5, every_2_fortnights,
     every_x_hours, hourly, daily_at_9h, daily_at_2500, weekly_on_funday_at_0800,
     weekly_on_monday_at_8, weekly_on_monday}
SecondCadences == {every_2_hours, every_5, weekly_on_saturday_at_0800, hourly}
CadenceUpdates == {[NoInput EXCEPT !.schedule_at = Some(hourly)],
                   [NoInput EXCEPT !.schedule_at = Some(daily_at_0930)]}

\* a record of the jobs file, as an earlier run of the program saved it
PersistedJob(name, schedule_at, enabled, next_run) ==
    to_dict([JobDefinition(name, StrRef("actions.ok"), schedule_at, Null, Null, enabled, Null, Null)
             EXCEPT !.next_run = next_run])

\* Monday 2024-01-01T10:00:00
MondayTen == 10 * Hour

CadenceInit ==
    \E ca \in AllCadences, cb \in SecondCadences, ea \in BOOLEAN, na \in {Null, Some(2 * Hour)} :
        Constructed(JsonFile(<<PersistedJob("a", ca, ea, na), PersistedJob("b", cb, TRUE, Null)>>),
                    MissingFile, MondayTen)

CadenceUpdateJob == \E n \in Names, u \in CadenceUpdates : update_job(n, u, "ok")

CadenceNext ==
    \/ Start \/ Stop \/ StopEnd \/ Restart \/ RestartEnd \/ CadenceUpdateJob
    \/ LoopRunPending \/ LoopDispatch \/ LoopExit \/ Advance

SpecCadence == CadenceInit /\ [][CadenceNext]_vars

\* The grammar of cadence strings: case-insensitive, whitespace-delimited,
\* 'every <N> <unit>', 'daily at <HH:MM>' or 'weekly on <day> at <HH:MM>'
IsHHMM(t) ==
    /\ Len(t) = 5 /\ IsDigit(t[1]) /\ IsDigit(t[2]) /\ t[3] = ":" /\ IsDigit(t[4]) /\ IsDigit(t[5])
    /\ ToInt(SubSeq(t, 1, 2)) <= 23 /\ ToInt(SubSeq(t, 4, 5)) <= 59

UnitWords == {u_second, u_minute, u_hour, u_day, u_week}

InGrammar(schedule_at) ==
    LET w == SplitWS(Lower(schedule_at))
    IN  \/ /\ Len(w) = 3 /\ w[1] = kw_every /\ IsInt(w[2])
           /\ \E u \in UnitWords : w[3] = u \/ w[3] = Append(u, "s")
        \/ /\ Len(w) = 3 /\ w[1] = <<"d","a","i","l","y">> /\ w[2] = kw_at /\ IsHHMM(w[3])
        \/ /\ Len(w) = 5 /\ w[1] = <<"w","e","e","k","l","y">> /\ w[2] = <<"o","n">>
           /\ IsWeekday(w[3]) /\ w[4] = kw_at /\ IsHHMM(w[5])

\* the step is a start() that finds the engine stopped
StartStep == CallReturns("start") /\ ~running

\* the step brings the engine from stopped to running: start(), or the start() of restart()
EngineStarts == ~running /\ running'

\* C7: on start(), a job whose cadence is outside the grammar is not scheduled and
\* stays in the job map, every other enabled job with a valid cadence is scheduled,
\* and the engine is running.
C7_MalformedJobSkippedOthersScheduled ==
    [][(StartStep /\ \E k \in 1..Len(jobs) : ~InGrammar(Obj(jobs[k]).schedule_at))
       => (/\ running'
           /\ jobs' = jobs
           /\ \A k \in 1..Len(jobs) :
                LET scheduled == \E i \in 1..Len(schedule_jobs') : schedule_jobs'[i].job = jobs[k]
                IN  /\ ~InGrammar(Obj(jobs[k]).schedule_at) => ~scheduled
                    /\ (Obj(jobs[k]).enabled /\ InGrammar(Obj(jobs[k]).schedule_at)) => scheduled)]_vars

\* C8: after start(), every job whose cadence is outside the grammar has next_run
\* null, whatever next_run it carried before.
C8_MalformedJobHasNoNextRun ==
    [][EngineStarts
       => \A k \in 1..Len(jobs') :
            ~InGrammar(Val(objs'[jobs'[k]]).schedule_at) => Val(objs'[jobs'[k]]).next_run = Null]_vars

\* C9: a cadence that differs from a supported form only in letter case is scheduled
\* on start() exactly as its lower-case form is.
C9_CadenceCaseInsensitive ==
    [][StartStep
       => \A k \in 1..Len(jobs) :
            LET job == Obj(jobs[k])
                rule == ParseSchedule(Lower(job.schedule_at))
            IN  (job.enabled /\ job.schedule_at # Lower(job.schedule_at) /\ rule.kind = "new")
                => \E i \in 1..Len(schedule_jobs') :
                      /\ schedule_jobs'[i].job = jobs[k]
                      /\ schedule_jobs'[i].interval = rule.interval
                      /\ schedule_jobs'[i].unit = rule.unit
                      /\ schedule_jobs'[i].at_time = rule.at_time
                      /\ schedule_jobs'[i].start_day = rule.start_day
                      /\ schedule_jobs'[i].next_run = NextRunAfter(rule, now)]_vars

(***************************************************************************)
(* Reloading: an engine constructed over jobs files of every kind, whose    *)
(* saves can fail, then run, stopped, started and restarted                 *)
(***************************************************************************)
\* how a save ends: written, open() raises, or json.dump raises after open() has
\* truncated the file; _save_jobs and _save_results log the exception and return
IO == {"ok", "open_fails", "dump_fails"}

\* a record of the jobs file without its 'schedule_at' key
MalformedRecord == [PersistedJob("c", every_2_hours, TRUE, Null) EXCEPT !.complete = FALSE]

\* job a as an earlier session left it after two runs
RanTwice ==
    to_dict([JobDefinition("a", StrRef("actions.ok"), hourly, Null, Null, TRUE, Null, Null)
             EXCEPT !.run_count = 2, !.last_run = Some(0), !.last_status = Some("success")])

ReloadFiles ==
    {MissingFile, CorruptFile, JsonFile(<<>>),
     JsonFile(<<PersistedJob("b", every_2_hours, TRUE, Null)>>),
     JsonFile(<<RanTwice, PersistedJob("b", every_2_hours, FALSE, Null)>>),
     JsonFile(<<PersistedJob("b", every_2_hours, TRUE, Null), MalformedRecord>>),
     JsonFile(<<MalformedRecord, PersistedJob("b", every_2_hours, TRUE, Null)>>),
     JsonFile(<<RanTwice, MalformedRecord, PersistedJob("b", hourly, TRUE, Null)>>)}

ReloadInit == \E jf \in ReloadFiles : Constructed(jf, MissingFile, 0)

ReloadNext ==
    \/ \E n \in Names, io \in IO :
         add_job(n, Callable("actions.ok"), every_2_hours, Null, Null, TRUE, Null, Null, io)
    \/ \E n \in Names, io \in IO : remove_job(n, io)
    \/ \E n \in Names, io \in IO : update_job(n, [NoInput EXCEPT !.enabled = Some(FALSE)], io)
    \/ \E n \in Names, ioj \in IO, ior \in IO : run_job_now(n, TRUE, ioj, ior)
    \/ Start \/ Stop \/ StopEnd \/ Restart \/ RestartEnd
    \/ LoopRunPending \/ LoopExit \/ Advance
    \/ \E w \in 1..MaxWorkers, ioj \in IO : loop_dispatch(w, TRUE, ioj, "ok")

SpecReload == ReloadInit /\ [][ReloadNext]_vars

\* the names of the records of a jobs file
RecordNames(file) == {file.data[i].name : i \in 1..Len(file.data)}

\* the names of the jobs of a job map
JobNames(h, js) == {Val(h[js[k]]).name : k \in 1..Len(js)}

\* every record of the jobs file can be read
Readable(file) == file.kind = "json" /\ \A i \in 1..Len(file.data) : file.data[i].complete

\* C11: when restart() returns over a readable Job Store, the engine is running, the
\* job map holds exactly the jobs of the store as it is at the reload, and the
\* scheduled jobs are the enabled ones of that map whose cadence parses.
C11_RestartReloadsExactlyTheStore ==
    [][(CallReturns("restart") /\ Readable(jobs_file))
       => (/\ running'
           /\ JobNames(objs', jobs') = RecordNames(jobs_file)
           /\ \A k \in 1..Len(jobs') :
                (\E i \in 1..Len(schedule_jobs') : schedule_jobs'[i].job = jobs'[k])
                <=> (Val(objs'[jobs'[k]]).enabled /\ InGrammar(Val(objs'[jobs'[k]]).schedule_at)))]_vars

(***************************************************************************)
(* Concurrency of job executions                                            *)
(***************************************************************************)
\* the poll-loop threads that are inside a job execution: run_pending starts the first
\* due entry as soon as it has collected them and the next as soon as one has ended,
\* so a thread is inside _run_job for as long as it has collected entries left
Executing == {w \in 1..Len(workers) : workers[w].pc = "dispatch"}

\* the step completes a job execution
JobExecuted == Len(job_results') = Len(job_results) + 1

\* C12: no two job executions are in progress at the same time: while an execution
\* of the poll loop completes no other poll-loop thread is inside one, and while
\* run_job_now executes a job no poll-loop thread is inside one.
C12_NoConcurrentExecutions ==
    [][JobExecuted
       => Cardinality(Executing) = (IF last_exec'.by = "poll" THEN 1 ELSE 0)]_vars

(***************************************************************************)
(* Saving step by step: what a reader of the two files finds while add_job  *)
(* and run_job_now are inside _save_jobs and _save_results                  *)
(***************************************************************************)
\* the file between open(path, 'w'), which truncates it, and the end of json.dump:
\* empty or an incomplete JSON text, which json.load rejects
OpenForWriting == CorruptFile

\* the call in progress, kept in ret until it returns
Pending(op, name, input) == [ret EXCEPT !.op = op, !.name = name, !.input = input,
                                        !.value = "saving", !.raised = FALSE]

\* Scheduler.add_job up to the open() of _save_jobs (lines 444-464, 272-277)
add_job_open(name, function, schedule_at, enabled) ==
    LET used == Refs(jobs, schedule_jobs, workers)
        o == NewOid(used)
        job == JobDefinition(name, function, schedule_at, Null, Null, enabled, Null, Null)
        h2 == [objs EXCEPT ![o] = Some(job)]
    IN  /\ CanCall
        /\ ~AddJobRaises(name)
        /\ HasFree(used)
        /\ jobs' = DictSet(h2, jobs, name, o)
        /\ objs' = Collect(h2, jobs', schedule_jobs, workers)
        /\ jobs_file' = OpenForWriting
        /\ caller' = "add_job_dump"
        /\ ret' = Pending("add_job", name, Null)
        /\ UNCHANGED <<job_results, results_file, running, schedule_jobs, workers,
                       now, advances, action_counts, last_exec>>
        /\ UNCHANGED gate

\* Scheduler.add_job from the json.dump of _save_jobs on (lines 278, 466-467)
add_job_dump ==
    /\ caller = "add_job_dump"
    /\ jobs_file' = SaveJobs(objs, jobs, jobs_file, "ok")
    /\ caller' = "idle"
    /\ ret' = Returned("add_job", ret.name, "job", Null)
    /\ UNCHANGED <<objs, jobs, job_results, results_file, running, schedule_jobs, workers,
                   now, advances, action_counts, last_exec>>
    /\ UNCHANGED gate

\* Scheduler.run_job_now up to the open() of _save_jobs inside _run_job (lines 645-652,
\* 371-411, 272-277)
run_job_now_open(name, browser_ok) ==
    LET o == JobOid(name)
        out == Invoke(Obj(o).function, action_counts, browser_ok)
        h2 == [objs EXCEPT ![o] = Some(RanJob(Obj(o), out, now))]
    IN  /\ CanCall
        /\ HasJob(name)
        /\ Len(job_results) < MaxRuns
        /\ job_results' = AppendResult(job_results, NewResult(Obj(o), out, now))
        /\ action_counts' = out.counts
        /\ last_exec' = [name |-> name, by |-> "now", enabled |-> Obj(o).enabled,
                         rejected |-> out.rejected, raised |-> out.raised, in_map |-> TRUE,
                         before |-> Obj(o), after |-> Val(h2[o])]
        /\ objs' = h2
        /\ jobs_file' = OpenForWriting
        /\ caller' = "run_jobs_dump"
        /\ ret' = Pending("run_job_now", name, Null)
        /\ UNCHANGED <<jobs, results_file, running, schedule_jobs, workers, now, advances>>
        /\ UNCHANGED gate

\* _run_job from the json.dump of _save_jobs to the open() of _save_results
\* (lines 278, 412, 316-320)
run_job_now_results_open ==
    /\ caller = "run_jobs_dump"
    /\ jobs_file' = SaveJobs(objs, jobs, jobs_file, "ok")
    /\ results_file' = OpenForWriting
    /\ caller' = "run_results_dump"
    /\ UNCHANGED <<objs, jobs, job_results, running, schedule_jobs, workers, now, advances,
                   action_counts, ret, last_exec>>
    /\ UNCHANGED gate

\* Scheduler.run_job_now from the json.dump of _save_results on (lines 321, 655-659)
run_job_now_results_dump ==
    /\ caller = "run_results_dump"
    /\ results_file' = SaveResults(job_results, results_file, "ok")
    /\ caller' = "idle"
    /\ ret' = Returned("run_job_now", ret.name, "result", Null)
    /\ UNCHANGED <<objs, jobs, job_results, jobs_file, running, schedule_jobs, workers,
                   now, advances, action_counts, last_exec>>
    /\ UNCHANGED gate

SaveInit ==
    \E jf \in {MissingFile, JsonFile(<<PersistedJob("b", every_2_hours, TRUE, Null)>>)} :
        Constructed(jf, MissingFile, 0)

SaveNext ==
    \/ \E n \in Names, f \in Functions, c \in {every_2_hours, hourly}, en \in BOOLEAN :
         add_job_open(n, f, c, en)
    \/ add_job_dump
    \/ \E n \in Names, b \in BOOLEAN : run_job_now_open(n, b)
    \/ run_job_now_results_open
    \/ run_job_now_results_dump

SpecSave == SaveInit /\ [][SaveNext]_vars

\* C13: a save is atomic to readers: whatever step of a save is taken, the jobs file
\* and the results file afterwards each hold either the complete content they held
\* before the step or the complete new content, never an empty or partial text.
C13_SavesAtomicToReaders ==
    [][/\ jobs_file' \in {jobs_file, SaveJobs(objs', jobs', jobs_file, "ok")}
       /\ results_file' \in {results_file, SaveResults(job_results', results_file, "ok")}]_vars

(***************************************************************************)
(* Loading at construction                                                  *)
(***************************************************************************)
\* the engine has been constructed and nothing has been called on it yet
JustConstructed == ret.op = "__init__"

\* the records of a jobs file that have their name, function and schedule_at
ValidRecords(file) == SelectSeq(file.data, LAMBDA d : d.complete)

\* C14: a jobs file with a malformed record among valid ones loads as exactly its
\* valid records: the job map holds each of them, in their order, and nothing else,
\* in particular no job of the default configuration.
C14_LoadSkipsOnlyMalformedRecord ==
    (/\ JustConstructed
     /\ jobs_file.kind = "json"
     /\ ValidRecords(jobs_file) # jobs_file.data)
    => (/\ Len(jobs) = Len(ValidRecords(jobs_file))
        /\ \A k \in 1..Len(jobs) : Obj(jobs[k]) = from_dict(ValidRecords(jobs_file)[k]))
\* the job map js of heap h is the configured default job set, each job as constructed
\* (next_run apart, which scheduling sets)
IsDefaultJobSet(h, js) ==
    /\ Len(js) = Len(DefaultJobs)
    /\ \A k \in 1..Len(js) :
         LET c == DefaultJobs[k]
         IN  [Val(h[js[k]]) EXCEPT !.next_run = Null]
                = JobDefinition(c.name, c.function, c.schedule_at, c.args, c.kwargs,
                                c.enabled, c.tags, c.description)

\* the file is missing or its text cannot be parsed
Unreadable(file) == file.kind \in {"missing", "corrupt"}

\* C15: a load that finds the jobs file missing or unparsable raises nothing and
\* leaves the job map exactly the configured default job set, at construction and
\* at the reload of restart().
C15_UnreadableStoreLoadsDefaults ==
    /\ (JustConstructed /\ Unreadable(jobs_file)) => IsDefaultJobSet(objs, jobs)
    /\ [][(CallReturns("restart") /\ Unreadable(jobs_file))
          => (~ret'.raised /\ IsDefaultJobSet(objs', jobs'))]_vars

(***************************************************************************)
(* Persist before returning                                                 *)
(***************************************************************************)
\* the jobs file holds the job map js of heap h, job by job in the map's order
FileHoldsMap(file, h, js) ==
    /\ file.kind = "json"
    /\ Len(file.data) = Len(js)
    /\ \A k \in 1..Len(js) : file.data[k] = to_dict(Val(h[js[k]]))

\* the results file holds the Result Log
FileHoldsResults(file, results) ==
    /\ file.kind = "json"
    /\ Len(file.data) = Len(results)
    /\ \A k \in 1..Len(results) : file.data[k] = result_to_dict(results[k])

\* the step is the return, without an exception, of add_job, remove_job or update_job
StoreCallReturns ==
    /\ \E op \in {"add_job", "remove_job", "update_job"} : CallReturns(op)
    /\ ~ret'.raised

\* C16 as stated: whenever add_job, remove_job, update_job or a job execution has
\* returned, the jobs file equals the job map, and after a job execution the results
\* file equals the Result Log (no save fails in this specification).
C16_EveryReturnLeavesStorePersisted ==
    [][(StoreCallReturns \/ JobExecuted)
       => (/\ FileHoldsMap(jobs_file', objs', jobs')
           /\ JobExecuted => FileHoldsResults(results_file', job_results'))]_vars

\* C16, amended: whenever add_job, update_job, a remove_job that removed a job, or a
\* job execution has returned, the jobs file equals the job map, and after a job
\* execution the results file equals the Result Log.
C16_MutationLeavesStorePersisted ==
    [][((StoreCallReturns /\ ~(ret'.op = "remove_job" /\ ret'.value = "False")) \/ JobExecuted)
       => (/\ FileHoldsMap(jobs_file', objs', jobs')
           /\ JobExecuted => FileHoldsResults(results_file', job_results'))]_vars

\* a job has been removed and the poll loop has executed a job, each persisting
C16_Witness ==
    /\ ret.op = "remove_job" /\ ret.value = "True"
    /\ last_exec.by = "poll"
    /\ FileHoldsMap(jobs_file, objs, jobs)
    /\ FileHoldsResults(results_file, job_results)

(***************************************************************************)
(* Round trip of the Job Store                                              *)
(***************************************************************************)
\* _save_jobs of the job map js of heap h, then _load_jobs of the file into an empty map
RoundTrip(h, js) == LoadJobs(NoObjects, <<>>, SaveJobs(h, js, MissingFile, "ok"), {})

\* C17: saving a job map and loading the file into an empty store gives the same job
\* names, each with the same cadence, enabled flag, run_count, last_status and last_run.
C17_SaveLoadRoundTrip ==
    LET l == RoundTrip(objs, jobs)
    IN  /\ l.ok
        /\ JobNames(l.h, l.js) = JobNames(objs, jobs)
        /\ Len(l.js) = Len(jobs)
        /\ \A n \in JobNames(objs, jobs) :
             LET saved == Obj(jobs[IndexOf(objs, jobs, n)])
                 loaded == Val(l.h[l.js[IndexOf(l.h, l.js, n)]])
             IN  /\ loaded.schedule_at = saved.schedule_at
                 /\ loaded.enabled = saved.enabled
                 /\ loaded.run_count = saved.run_count
                 /\ loaded.last_status = saved.last_status
                 /\ loaded.last_run = saved.last_run

\* a map of two jobs, one of them disabled, one of them run and failed
C17_Witness ==
    /\ Len(jobs) = 2
    /\ \E k \in 1..2 : ~Obj(jobs[k]).enabled
    /\ \E k \in 1..2 : /\ Obj(jobs[k]).run_count >= 1
                       /\ Obj(jobs[k]).last_status = Some("failed")
    /\ RoundTrip(objs, jobs).ok

(***************************************************************************)
(* The rate gate called directly: by one thread, and by several at once     *)
(***************************************************************************)
GateNext == \E c \in Categories : check_rate_limit(c)

SpecGate == Init /\ [][GateNext]_vars

GateThreadsNext ==
    \/ \E t \in 1..GateThreads, c \in Categories : rate_limit_enter(t, c)
    \/ \E t \in 1..GateThreads : rate_limit_test(t)
    \/ \E t \in 1..GateThreads : rate_limit_load(t)
    \/ \E t \in 1..GateThreads : rate_limit_store(t)

SpecGateThreads == Init /\ [][GateThreadsNext]_vars

Min(a, b) == IF a <= b THEN a ELSE b

\* C18: of the sequential calls for a category with ceiling C exactly the first C
\* return true: the calls granted are the calls made, up to C; the counter is the
\* number of calls granted (so a rejected call and a call for another category leave
\* it as it is) and never exceeds C; and the last call returned true just when it
\* was one of the first C for its category.
C18_SequentialAdmits ==
    /\ \A c \in Categories :
         /\ gate.granted[c] = Min(gate.calls[c], daily_limit(c))
         /\ action_counts[c] = gate.granted[c]
         /\ action_counts[c] <= daily_limit(c)
    /\ ret.op = "_check_rate_limit"
       => (ret.value = "True" <=> gate.calls[ret.name] <= daily_limit(ret.name))

\* follows has been asked for beyond its ceiling and just rejected, unfollows granted
\* up to its ceiling
C18_Witness ==
    /\ ret.op = "_check_rate_limit" /\ ret.name = "follows" /\ ret.value = "False"
    /\ gate.calls["follows"] > daily_limit_follows
    /\ gate.granted["unfollows"] = daily_limit_unfollows

\* C19: with several threads calling the gate for the same category, the calls that
\* returned true never exceed the ceiling and the counter equals their number.
C19_ConcurrentAdmits ==
    \A c \in Categories :
        /\ gate.granted[c] <= daily_limit(c)
        /\ action_counts[c] = gate.granted[c]

(***************************************************************************)
(* Run counts                                                               *)
(***************************************************************************)
\* C20: for every job that stays in the store, run_count never decreases, whatever
\* is run, updated, stopped, started or restarted, also when a restart reloads the
\* job map after a save has failed.
C20_RunCountNeverDecreases ==
    [][\A n \in Names :
         (HasJob(n) /\ HasJob(n)')
         => Val(get_job(n)').run_count >= Val(get_job(n)).run_count]_vars

(***************************************************************************)
(* next_run after a firing                                                  *)
(***************************************************************************)
\* the step is a firing of a scheduled job by the poll loop
Fired == JobExecuted /\ last_exec'.by = "poll"

\* C21: after a scheduled job has fired, its next_run, when it is still in the job
\* map, is null or an instant strictly after the instant of that firing.
C21_NextRunAfterFiring ==
    [][\A n \in Names :
         (Fired /\ last_exec'.name = n /\ last_exec'.in_map /\ HasJob(n)')
         => \/ Val(get_job(n)').next_run = Null
            \/ Val(Val(get_job(n)').next_run) > now]_vars
(***************************************************************************)
(* Queries of the Result Log: engines constructed over a results file and   *)
(* the default job, jobs run on demand, and get_job_results                 *)
(***************************************************************************)
\* a record of the results file
ResultRecord(job_name, start_time, success) ==
    [job_name |-> job_name, start_time |-> start_time, end_time |-> Some(start_time),
     success |-> Some(success),
     result |-> IF success THEN Some("ok") ELSE Null,
     error |-> IF success THEN Null ELSE Some("boom")]

\* the results files the engine is constructed over; a record without job_name is
\* loaded with the job name '' (line 293)
QueryFiles ==
    {MissingFile,
     JsonFile(<<ResultRecord("a", 0, TRUE), ResultRecord("b", 0, FALSE)>>),
     JsonFile(<<ResultRecord("b", 0, TRUE), ResultRecord("", 0, FALSE), ResultRecord("a", 0, TRUE)>>)}

QueryNames == {Null, Some("a"), Some("b"), Some("")}
QuerySuccess == {Null, Some(TRUE), Some(FALSE)}
QueryLimits == 0..2

QueryInit == \E rf \in QueryFiles : Constructed(MissingFile, rf, 0)

QueryNext ==
    \/ \E f \in Functions : add_job("b", f, every_2_hours, Null, Null, TRUE, Null, Null, "ok")
    \/ \E n \in Names, b \in BOOLEAN : run_job_now(n, b, "ok", "ok")
    \/ \E n \in QueryNames, so \in QuerySuccess, l \in QueryLimits : get_job_results_call(n, so, l)

SpecQuery == QueryInit /\ [][QueryNext]_vars

\* s in reverse order
Reverse(s) == [i \in 1..Len(s) |-> s[Len(s) + 1 - i]]

\* the entries of the log that match the filters given, most recently appended first
Matching(results, job_name, success_only) ==
    LET Matches(r) == /\ job_name # Null => r.job_name = Val(job_name)
                      /\ success_only # Null => r.success = success_only
    IN  Reverse(SelectSeq(results, Matches))

\* C22: get_job_results returns exactly the entries of the Result Log that match the
\* job_name and success filters given, most recently appended first, and of these the
\* first `limit` and no more when a positive limit is given.
C22_QueryReturnsMatches ==
    ret.op = "get_job_results"
    => LET q == Val(ret.input)
           m == Matching(job_results, q.job_name, q.success_only)
       IN  ret.value = IF q.limit > 0 /\ Len(m) > q.limit THEN SubSeq(m, 1, q.limit) ELSE m
(***************************************************************************)
(* Frame of remove_job                                                      *)
(***************************************************************************)
\* C23: remove_job(name) returns true exactly when the name was in the job map;
\* afterwards the name is not in the map, every other job is unchanged and the
\* Result Log is unchanged; when the name was absent it returns false and changes
\* neither the map, the log, the schedule nor the two files.
C23_RemoveJobFrame ==
    [][\A n \in Names :
         (CallReturns("remove_job") /\ ret'.name = n)
         => /\ ~ret'.raised
            /\ ret'.value = (IF HasJob(n) THEN "True" ELSE "False")
            /\ ~HasJob(n)'
            /\ \A m \in Names \ {n} : get_job(m)' = get_job(m)
            /\ job_results' = job_results
            /\ ~HasJob(n) => UNCHANGED <<objs, jobs, jobs_file, results_file, schedule_jobs>>]_vars

\* a job that has results was removed while another job stays in the map
C23_Witness ==
    /\ ret.op = "remove_job"
    /\ ret.value = "True"
    /\ ~HasJob(ret.name)
    /\ jobs # <<>>
    /\ \E i \in 1..Len(job_results) : job_results[i].job_name = ret.name
(***************************************************************************)
(* Frame of update_job                                                      *)
(***************************************************************************)
\* the fields update_job takes as arguments, and the others
ConfigFields == {"function", "schedule_at", "args", "kwargs", "enabled", "tags", "description"}
KeptFields == {"name", "last_run", "last_status", "next_run", "run_count"}

\* C24: update_job on a name that is not in the job map raises the job-not-found
\* error and leaves the job map and the jobs file unchanged; on a name that is in
\* the map it sets each supplied field to the supplied value and leaves the job's
\* other fields, among them its name, last_run, last_status, next_run and run_count,
\* and every other job unchanged.
C24_UpdateJobFrame ==
    [][\A n \in Names :
         (CallReturns("update_job") /\ ret'.name = n)
         => IF ~HasJob(n)
            THEN /\ ret'.raised
                 /\ ret'.value = "ValueError"
                 /\ UNCHANGED <<objs, jobs, jobs_file>>
            ELSE /\ ~ret'.raised
                 /\ jobs' = jobs
                 /\ \A f \in ConfigFields :
                      Val(get_job(n)')[f] = IF Val(ret'.input)[f] # Null
                                            THEN Val(Val(ret'.input)[f])
                                            ELSE Val(get_job(n))[f]
                 /\ \A f \in KeptFields : Val(get_job(n)')[f] = Val(get_job(n))[f]
                 /\ \A m \in Names \ {n} : get_job(m)' = get_job(m)]_vars

\* a job that has run and has a next run was updated while another job is in the map
C24_Witness ==
    /\ ret.op = "update_job"
    /\ ~ret.raised
    /\ HasJob(ret.name)
    /\ Val(get_job(ret.name)).run_count > 0
    /\ Val(get_job(ret.name)).next_run # Null
    /\ Len(jobs) = 2
(***************************************************************************)
(* Stopping: the engine under fair scheduling of its threads.  A thread     *)
(* inside a job finishes it, a thread that tests self.running and finds it  *)
(* false ends, and a join whose thread has ended or whose timeout has       *)
(* passed returns.                                                          *)
(***************************************************************************)
\* the engine started and stopped, its jobs also run on demand
EngineNext ==
    \/ Start \/ Stop \/ StopEnd \/ RunJobNow
    \/ LoopRunPending \/ LoopDispatch \/ LoopExit \/ Advance

\* thread w moves on when it can: it ends the job it is inside, or ends itself
WorkerStep(w) == (\E b \in BOOLEAN : loop_dispatch(w, b, "ok", "ok")) \/ loop_exit(w)

Fairness ==
    /\ \A w \in 1..MaxWorkers : WF_vars(WorkerStep(w))
    /\ WF_vars(StopEnd)

SpecFair == Init /\ [][EngineNext]_vars /\ Fairness

\* the poll-loop threads of an earlier start(): stop() has been called on each of
\* them, since start() returns at once while the engine is running
Superseded == {w \in 1..Len(workers) : ~workers[w].current}

\* C25: stop() returns without raising and with the running flag false, also when
\* the join has timed out; and a poll-loop thread on which stop() has been called
\* eventually leaves the loop, provided the job it is inside ends (the model runs no
\* job once the log holds MaxRuns results).
C25_StopReturnsAndWorkerLeaves ==
    /\ [][CallReturns("stop") => (~ret'.raised /\ ~running')]_vars
    /\ (Superseded # {}) ~> (Superseded = {} \/ Len(job_results) >= MaxRuns)
(***************************************************************************)
(* The next fire instant of a valid cadence                                 *)
(***************************************************************************)
\* the first instant strictly after t that lies offset seconds into a period, periods
\* counted from Monday 2024-01-01T00:00:00
FirstAfter(t, period, offset) ==
    LET d == (offset - (t % period) + period) % period
    IN  IF d = 0 THEN t + period ELSE t + d

\* the length of a unit word of the grammar, singular or plural
WordSeconds(u) ==
    CASE u \in {u_second, Append(u_second, "s")} -> 1
      [] u \in {u_minute, Append(u_minute, "s")} -> Minute
      [] u \in {u_hour, Append(u_hour, "s")} -> Hour
      [] u \in {u_day, Append(u_day, "s")} -> Day
      [] u \in {u_week, Append(u_week, "s")} -> Week

\* the next fire instant the grammar gives a valid cadence at reference instant t
ExpectedNext(schedule_at, t) ==
    LET w == SplitWS(Lower(schedule_at))
    IN  CASE w[1] = kw_every -> t + ToInt(w[2]) * WordSeconds(w[3])
          [] Len(w) = 3 /\ w[1] # kw_every -> FirstAfter(t, Day, AtSeconds(w[3]))
          [] Len(w) = 5 -> FirstAfter(t, Week, WeekdayIndex(w[3]) * Day + AtSeconds(w[5]))

\* C26: when the engine starts at reference instant now, every enabled job with a
\* valid cadence gets the next fire instant of its cadence: now + N units for
\* 'every N unit', the first HH:MM after now for 'daily at HH:MM', the first DAY HH:MM
\* after now for 'weekly on DAY at HH:MM'; the instant is strictly after now.
C26_ValidCadenceNextFire ==
    [][EngineStarts
       => \A k \in 1..Len(jobs') :
            LET job == Val(objs'[jobs'[k]])
            IN  (job.enabled /\ InGrammar(job.schedule_at))
                => /\ job.next_run = Some(ExpectedNext(job.schedule_at, now))
                   /\ ExpectedNext(job.schedule_at, now) > now]_vars
(***************************************************************************)
(* Failed saves                                                             *)
(***************************************************************************)
\* the store and a started engine whose saves can fail
FailingSaveNext ==
    \/ \E io \in IO :
         add_job("b", Callable("actions.raises"), every_2_hours, Null, Null, TRUE, Null, Null, io)
    \/ \E n \in Names, io \in IO : remove_job(n, io)
    \/ \E n \in Names, io \in IO : update_job(n, [NoInput EXCEPT !.enabled = Some(FALSE)], io)
    \/ \E n \in Names, ioj \in IO, ior \in IO : run_job_now(n, TRUE, ioj, ior)
    \/ Start \/ LoopRunPending \/ Advance
    \/ \E w \in 1..MaxWorkers, io \in IO : loop_dispatch(w, TRUE, io, io)

SpecFailingSave == Init /\ [][FailingSaveNext]_vars

\* after the step the jobs file does not hold the job map, or the results file does
\* not hold the Result Log: the save of the step has failed
JobsSaveFailed == ~FileHoldsMap(jobs_file', objs', jobs')
ResultsSaveFailed == ~FileHoldsResults(results_file', job_results')

\* the step is a job execution
Executed == JobExecuted \/ last_exec' # last_exec

\* C27: when the save of the jobs or of the results file fails during add_job,
\* remove_job, update_job or a job execution, the operation returns normally, the
\* poll loop goes on, and the job map and the Result Log hold the operation's
\* effect: the job added, removed or updated, the run counted and its result
\* appended.
C27_FailedSaveKeepsMemory ==
    [][\A n \in Names :
         /\ (CallReturns("add_job") /\ ret'.name = n /\ ~HasJob(n) /\ JobsSaveFailed)
            => /\ ~ret'.raised
               /\ HasJob(n)'
               /\ Val(get_job(n)').schedule_at = Val(Val(ret'.input).schedule_at)
               /\ Val(get_job(n)').enabled = Val(Val(ret'.input).enabled)
         /\ (CallReturns("remove_job") /\ ret'.name = n /\ HasJob(n) /\ JobsSaveFailed)
            => (~ret'.raised /\ ret'.value = "True" /\ ~HasJob(n)')
         /\ (CallReturns("update_job") /\ ret'.name = n /\ HasJob(n) /\ JobsSaveFailed)
            => /\ ~ret'.raised
               /\ HasJob(n)'
               /\ Val(get_job(n)').enabled = Val(Val(ret'.input).enabled)
         /\ (Executed /\ last_exec'.name = n /\ (JobsSaveFailed \/ ResultsSaveFailed))
            => /\ Len(job_results') = Len(job_results) + 1
               /\ SubSeq(job_results', 1, Len(job_results)) = job_results
               /\ Last(job_results').job_name = n
               /\ last_exec'.after.run_count = last_exec'.before.run_count + 1
               /\ last_exec'.in_map => get_job(n)' = Some(last_exec'.after)
               /\ CallReturns("run_job_now") => ~ret'.raised
               /\ Len(workers') = Len(workers)
               /\ running' = running]_vars

\* run_job_now has returned from an execution neither of whose saves succeeded
C27_Witness ==
    /\ ret.op = "run_job_now"
    /\ ret.value = "result"
    /\ last_exec.name = ret.name
    /\ job_results # <<>>
    /\ ~FileHoldsMap(jobs_file, objs, jobs)
    /\ ~FileHoldsResults(results_file, job_results)
(***************************************************************************)
(* What one execution records                                               *)
(***************************************************************************)
\* C28: every execution of a job, whether its action returns or raises, adds exactly
\* 1 to the job's run_count, sets its last_run to the start time of the execution
\* and its last_status to 'success' or 'failed' accordingly, and appends exactly one
\* JobResult, of that job, start time and outcome, to the Result Log.
C28_ExecutionCountsAndRecords ==
    [][\A n \in Names :
         (Executed /\ last_exec'.name = n)
         => /\ last_exec'.after.run_count = last_exec'.before.run_count + 1
            /\ last_exec'.after.last_run = Some(now)
            /\ last_exec'.after.last_status = Some(IF last_exec'.raised THEN "failed" ELSE "success")
            /\ last_exec'.after = [last_exec'.before EXCEPT
                                     !.run_count = last_exec'.after.run_count,
                                     !.last_run = last_exec'.after.last_run,
                                     !.last_status = last_exec'.after.last_status]
            /\ last_exec'.in_map => get_job(n)' = Some(last_exec'.after)
            /\ Len(job_results') = Len(job_results) + 1
            /\ SubSeq(job_results', 1, Len(job_results)) = job_results
            /\ Last(job_results').job_name = n
            /\ Last(job_results').start_time = now
            /\ Last(job_results').success = Some(~last_exec'.raised)]_vars

\* the poll loop has executed a job whose action raised, and it was the job's second run
C28_Witness ==
    /\ last_exec.by = "poll"
    /\ last_exec.raised
    /\ last_exec.after.run_count = 2
    /\ Last(job_results).job_name = last_exec.name
(***************************************************************************)
(* Unresolvable action references: engines constructed over a jobs file     *)
(* that holds a job whose function cannot be resolved, next to job 'a'      *)
(***************************************************************************)
\* references _resolve_function raises ValueError for: a JSON number, which is
\* neither callable nor a string; a string without a dot; a module that cannot be
\* imported; a module without the attribute; an attribute that is not callable
ref_number == StrRef("42")
ref_no_dot == StrRef("ok")
ref_unknown_module == StrRef("nomodule.ok")
ref_unknown_attribute == StrRef("actions.missing")
ref_not_callable == StrRef("actions.VERSION")
UnresolvableRefs ==
    {ref_number, ref_no_dot, ref_unknown_module, ref_unknown_attribute, ref_not_callable}

UnresolvableInit ==
    \E f \in UnresolvableRefs, first \in BOOLEAN :
        LET bad == [PersistedJob("b", every_2_hours, TRUE, Null) EXCEPT !.function = f]
            good == PersistedJob("a", every_2_hours, TRUE, Null)
        IN  Constructed(JsonFile(IF first THEN <<bad, good>> ELSE <<good, bad>>), MissingFile, 0)

UnresolvableNext ==
    \/ RunJobNow \/ Start \/ Stop \/ StopEnd
    \/ LoopRunPending \/ LoopDispatch \/ LoopExit \/ Advance

SpecUnresolvable == UnresolvableInit /\ [][UnresolvableNext]_vars

\* C29: a job whose action reference cannot be resolved is loaded with the other
\* jobs of the file, and each execution of it, by the poll loop or by run_job_now,
\* appends a failed JobResult with an error, sets last_status to 'failed', and ends
\* without an exception: run_job_now returns and the poll-loop thread goes on.
C29_UnresolvableJobLoadedAndFails ==
    /\ ret.op = "__init__"
       => \A k \in 1..Len(jobs_file.data) :
             /\ HasJob(jobs_file.data[k].name)
             /\ Val(get_job(jobs_file.data[k].name)).function = jobs_file.data[k].function
    /\ [][\A n \in Names :
            (Executed /\ last_exec'.name = n /\ last_exec'.before.function \in UnresolvableRefs)
            => /\ Len(job_results') = Len(job_results) + 1
               /\ Last(job_results').job_name = n
               /\ Last(job_results').success = Some(FALSE)
               /\ Last(job_results').error # Null
               /\ last_exec'.after.last_status = Some("failed")
               /\ last_exec'.in_map => Val(get_job(n)').last_status = Some("failed")
               /\ CallReturns("run_job_now") => ~ret'.raised
               /\ Len(workers') = Len(workers)
               /\ running' = running]_vars

\* the poll loop has dispatched the job with the unresolvable reference and goes on
C29_Witness ==
    /\ last_exec.by = "poll"
    /\ last_exec.before.function \in UnresolvableRefs
    /\ Last(job_results).job_name = last_exec.name
    /\ Last(job_results).error # Null
    /\ HasJob("a")
    /\ running
(***************************************************************************)
(* Raising actions and the poll loop: an engine constructed over a jobs     *)
(* file with job 'b', whose action raises, before job 'a', both due every   *)
(* two hours, with the poll-loop threads scheduled fairly                   *)
(***************************************************************************)
TicksInit ==
    Constructed(JsonFile(<<[PersistedJob("b", every_2_hours, TRUE, Null)
                              EXCEPT !.function = StrRef("actions.raises")],
                           PersistedJob("a", every_2_hours, TRUE, Null)>>),
                MissingFile, 0)

ClockTick == clock_tick

TicksNext ==
    \/ Start \/ Stop \/ StopEnd
    \/ LoopRunPending \/ LoopDispatch \/ LoopExit \/ ClockTick

\* thread w moves on when it can: it collects the due entries, ends the job it is
\* inside, or ends itself
PollStep(w) == loop_run_pending(w) \/ WorkerStep(w)

SpecTicks == TicksInit /\ [][TicksNext]_vars /\ \A w \in 1..MaxWorkers : WF_vars(PollStep(w))

\* the last execution was one of the poll loop whose action raised
RaisedInLoop == last_exec.by = "poll" /\ last_exec.raised

\* C30: when an action dispatched by the poll loop raises while the engine is
\* running, the running flag and the poll-loop threads stay as they are and the
\* thread keeps the other entries it has collected for the tick; these are then
\* dispatched, and entries that come due afterwards are dispatched as long as the
\* engine is running (the model runs no job once the log holds MaxRuns results).
C30_RaisingActionDoesNotStopLoop ==
    /\ [][(Fired /\ last_exec'.raised)
          => /\ running' = running
             /\ Len(workers') = Len(workers)
             /\ \E w \in 1..Len(workers) :
                  /\ workers[w].pc = "dispatch"
                  /\ workers'[w].pending = Tail(workers[w].pending)
                  /\ \A v \in (1..Len(workers)) \ {w} : workers'[v] = workers[v]]_vars
    /\ (RaisedInLoop /\ \E w \in 1..Len(workers) : workers[w].pending # <<>>)
       ~> ((\A w \in 1..Len(workers) : workers[w].pending = <<>>)
           \/ Len(job_results) >= MaxRuns)
    /\ (RaisedInLoop /\ running /\ Runnable # <<>>)
       ~> (Runnable = <<>> \/ ~running \/ Len(job_results) >= MaxRuns)

\* the action of 'b' raised in the first tick, 'a' was dispatched in the same tick,
\* and 'b' was dispatched again in the next tick, the engine still running
C30_Witness ==
    /\ running
    /\ Len(job_results) = 3
    /\ job_results[1].job_name = "b" /\ job_results[1].success = Some(FALSE)
    /\ job_results[1].start_time = 2 * Hour
    /\ job_results[2].job_name = "a" /\ job_results[2].start_time = 2 * Hour
    /\ job_results[3].job_name = "b" /\ job_results[3].start_time = 4 * Hour
    /\ last_exec.by = "poll"
(***************************************************************************)
(* Exceptions of the tick body outside a job: the engine started and        *)
(* stopped (the join waiting for the thread), run_pending free to raise     *)
(***************************************************************************)
TickErrorNext ==
    \/ Start \/ Stop \/ stop_end(FALSE) \/ RunJobNow
    \/ LoopRunPending \/ LoopDispatch \/ LoopExit \/ Advance
    \/ \E w \in 1..MaxWorkers : loop_tick_raises(w)
    \/ \E w \in 1..MaxWorkers : loop_backoff_end(w)

SpecTickError ==
    Init /\ [][TickErrorNext]_vars /\ \A w \in 1..MaxWorkers : WF_vars(loop_backoff_end(w))

\* the step is a tick body of thread w raising outside a job
TickRaises(w) ==
    /\ w \in 1..Len(workers)
    /\ workers[w].pc # "backoff"
    /\ Len(workers') = Len(workers)
    /\ workers'[w].pc = "backoff"

\* C31: an exception raised by a tick body outside a job execution is caught: the
\* running flag is unchanged and the poll-loop thread does not end (a thread ends
\* only while the running flag is false), and after the back-off sleep the thread is
\* at the loop's test again.
C31_TickExceptionCaught ==
    /\ [][\A w \in 1..MaxWorkers : TickRaises(w) => running' = running]_vars
    /\ [][Len(workers') < Len(workers) => ~running]_vars
    /\ \A w \in 1..MaxWorkers :
         (w \in 1..Len(workers) /\ workers[w].pc = "backoff")
         ~> (w \in 1..Len(workers) /\ workers[w].pc = "top")

\* the tick body of the thread has raised while a job was due; the thread is in
\* its back-off sleep and the engine is running
C31_Witness ==
    /\ running
    /\ Len(workers) = 1
    /\ workers[1].pc = "backoff"
    /\ \E i \in 1..Len(schedule_jobs) : ShouldRun(schedule_jobs[i])
(***************************************************************************)
(* Iteration over the job map: the poll loop saving the jobs after a run,   *)
(* step by step, while a caller adds and removes jobs                       *)
(***************************************************************************)
IterateNext ==
    \/ \E n \in Names : add_job(n, Callable("actions.ok"), every_2_hours, Null, Null, TRUE,
                                Null, Null, "ok")
    \/ RemoveJob \/ Start \/ LoopRunPending \/ Advance
    \/ \E w \in 1..MaxWorkers, b \in BOOLEAN : loop_dispatch_begin(w, b)
    \/ \E w \in 1..MaxWorkers : loop_dispatch_save(w)

SpecIterate == Init /\ [][IterateNext]_vars

\* the keys of the job map
KeySet(h, js) == {Val(h[js[i]]).name : i \in 1..Len(js)}

\* C32: while a poll-loop thread is iterating over the job map, no step changes the
\* map's key set.
C32_NoMutationDuringIteration ==
    [][(\E w \in 1..Len(workers) : workers[w].keys # Null)
       => KeySet(objs', jobs') = KeySet(objs, jobs)]_vars
(***************************************************************************)
(* Completeness of the Result Log                                           *)
(***************************************************************************)
\* a JobResult that complete() has been called on, with the fields of its outcome
Complete(r) ==
    /\ r.end_time # Null
    /\ r.success \in {Some(TRUE), Some(FALSE)}
    /\ r.success = Some(TRUE) => r.error = Null
    /\ r.success = Some(FALSE) => (r.error # Null /\ r.result = Null)

\* C33: every JobResult of the Result Log that a job execution produced is complete:
\* end_time is set, success is true or false, a successful result has no error, a
\* failed one has an error and no result; and no step changes or removes an entry
\* that is in the log.
C33_ResultsCompleteAndImmutable ==
    [][/\ \A i \in 1..Len(job_results') : Complete(job_results'[i])
       /\ Len(job_results') >= Len(job_results)
       /\ \A i \in 1..Len(job_results) : job_results'[i] = job_results[i]]_vars

\* the log holds a failed result and, appended after it by the poll loop, a successful one
C33_Witness ==
    /\ Len(job_results) >= 2
    /\ \E i, k \in 1..Len(job_results) :
         i < k /\ job_results[i].success = Some(FALSE) /\ job_results[k].success = Some(TRUE)
    /\ last_exec.by = "poll"
    /\ running
(***************************************************************************)
(* A cadence 'every <N>' without its unit                                   *)
(***************************************************************************)
\* the cadence is 'every <N>' and nothing more
UnitMissing(schedule_at) ==
    LET w == SplitWS(Lower(schedule_at))
    IN  Len(w) = 2 /\ w[1] = kw_every /\ IsInt(w[2])

\* the schedule entries bound to job object o
EntriesOf(sched, o) == {i \in 1..Len(sched) : sched[i].job = o}

\* C34: when the engine starts, no schedule entry is bound to an enabled job whose
\* cadence is 'every <N>' without a unit, and every enabled job whose cadence the
\* parser accepts has exactly one entry bound to it, also when the job without a
\* unit comes right after it in the job map.
C34_UnitMissingJobNotScheduled ==
    [][EngineStarts
       => \A k \in 1..Len(jobs') :
            LET job == Val(objs'[jobs'[k]])
            IN  /\ (job.enabled /\ UnitMissing(job.schedule_at))
                   => EntriesOf(schedule_jobs', jobs'[k]) = {}
                /\ (job.enabled /\ ParseSchedule(job.schedule_at).kind = "new")
                   => Cardinality(EntriesOf(schedule_jobs', jobs'[k])) = 1]_vars
(***************************************************************************)
(* Executions after stop() has returned                                     *)
(***************************************************************************)
\* the step makes a poll-loop thread start a job execution: run_pending starts the
\* first entry it has collected, or an execution has ended and it starts the next
ExecutionStarts ==
    \E w \in 1..Len(workers) :
        /\ Len(workers') = Len(workers)
        /\ workers'[w].pc = "dispatch"
        /\ \/ workers[w].pc = "top"
           \/ Len(workers'[w].pending) < Len(workers[w].pending)

\* C35: while the engine is stopped and no stop() is in progress, that is from the
\* return of stop() to the next start(), no poll-loop thread starts a job execution.
C35_NoExecutionStartsWhileStopped ==
    [][(~running /\ caller = "idle") => ~ExecutionStarts]_vars
(***************************************************************************)
(* The number of poll-loop threads                                          *)
(***************************************************************************)
\* C36: at every instant at most one poll-loop thread of the engine is alive.
C36_AtMostOneWorker == Len(workers) <= 1
(***************************************************************************)
(* A removed job and the poll loop                                          *)
(***************************************************************************)
\* the name of the job the last public call has removed: no add_job has re-created
\* it since, as no public call has ended since
RemovedName == IF ret.op = "remove_job" /\ ret.value = "True" THEN Some(ret.name) ELSE Null

\* the step is one of the poll loop or of the clock on a running engine, taken while
\* the removal is the last public call that has ended
AfterRemoval == RemovedName # Null /\ running /\ ret' = ret /\ caller' = caller

\* the step makes a poll-loop thread start an execution of a job object named name
ExecutionStartsOf(name) ==
    \E w \in 1..Len(workers) :
        /\ Len(workers') = Len(workers)
        /\ workers'[w].pc = "dispatch"
        /\ \/ workers[w].pc = "top"
           \/ Len(workers'[w].pending) < Len(workers[w].pending)
        /\ Val(objs'[Head(workers'[w].pending).job]).name = name

\* the names in the persisted jobs record
PersistedNames(file) ==
    IF file.kind = "json" THEN {file.data[i].name : i \in 1..Len(file.data)} ELSE {}

\* C37: once remove_job(name) has returned True on a running engine, the poll loop
\* starts no execution of a job of that name, appends no result of that name, and
\* the name is not in the persisted jobs record.
C37_RemovedJobNotDispatched ==
    [][AfterRemoval
       => /\ ~ExecutionStartsOf(Val(RemovedName))
          /\ ~(Fired /\ last_exec'.name = Val(RemovedName))
          /\ Val(RemovedName) \notin PersistedNames(jobs_file')]_vars

\* the part of C37 about the persisted jobs record alone
RemovedJobNotPersisted ==
    [][AfterRemoval
       => Val(RemovedName) \notin PersistedNames(jobs_file')]_vars
(***************************************************************************)
(* run_job_now on the caller's thread while the poll loop runs the same job  *)
(***************************************************************************)
\* Scheduler.run_job_now up to the read of job.run_count by `job.run_count += 1`
\* (lines 645-652, 371-392, 396-403): the action has run, last_run and last_status
\* are stored, and the thread holds the count it has read
run_job_now_load(name, browser_ok) ==
    LET o == JobOid(name)
        out == Invoke(Obj(o).function, action_counts, browser_ok)
    IN  /\ CanCall
        /\ HasJob(name)
        /\ Len(job_results) < MaxRuns
        /\ action_counts' = out.counts
        /\ objs' = [objs EXCEPT ![o] = Some([RanJob(Obj(o), out, now)
                                               EXCEPT !.run_count = Obj(o).run_count])]
        /\ caller' = "run_job_now_count"
        /\ ret' = [ret EXCEPT !.op = "run_job_now", !.name = name, !.raised = FALSE,
                              !.value = "counting",
                              !.input = Some([out |-> out, start_time |-> now,
                                              run_count |-> Obj(o).run_count])]
        /\ UNCHANGED <<jobs, job_results, jobs_file, results_file, running, schedule_jobs,
                       workers, now, advances, last_exec>>
        /\ UNCHANGED gate

\* _run_job from the store of `job.run_count += 1` to its end (lines 392, 403-412): the
\* count read earlier plus one is stored, the result is appended, the files are saved
run_job_now_store ==
    LET o == JobOid(ret.name)
        frame == Val(ret.input)
        h2 == [objs EXCEPT ![o] = Some([Obj(o) EXCEPT !.run_count = frame.run_count + 1])]
    IN  /\ caller = "run_job_now_count"
        /\ Len(job_results) < MaxRuns
        /\ objs' = h2
        /\ job_results' = AppendResult(job_results, NewResult(Obj(o), frame.out, frame.start_time))
        /\ jobs_file' = SaveJobs(h2, jobs, jobs_file, "ok")
        /\ results_file' = SaveResults(job_results', results_file, "ok")
        /\ last_exec' = [name |-> ret.name, by |-> "now", enabled |-> Obj(o).enabled,
                         rejected |-> frame.out.rejected, raised |-> frame.out.raised,
                         in_map |-> TRUE, before |-> Obj(o), after |-> Val(h2[o])]
        /\ caller' = "run_job_now_scan"
        /\ ret' = [ret EXCEPT !.value = "scanning", !.input = Some(Len(job_results'))]
        /\ UNCHANGED <<jobs, running, schedule_jobs, workers, now, advances, action_counts>>
        /\ UNCHANGED gate

\* the position of the first result named name that `reversed(self.job_results)` meets,
\* 0 if there is none (lines 655-659)
MostRecent(results, name) ==
    IF \E i \in 1..Len(results) : results[i].job_name = name
    THEN CHOOSE i \in 1..Len(results) :
            /\ results[i].job_name = name
            /\ \A k \in (i + 1)..Len(results) : results[k].job_name # name
    ELSE 0

\* Scheduler.run_job_now after _run_job has returned (lines 654-659): the scan of the
\* results; the call returns the result it finds, here by its position in the list
run_job_now_scan ==
    /\ caller = "run_job_now_scan"
    /\ caller' = "idle"
    /\ ret' = Returned("run_job_now", ret.name, "result",
                       Some(MostRecent(job_results, ret.name)))
    /\ UNCHANGED <<objs, jobs, job_results, jobs_file, results_file, running, schedule_jobs,
                   workers, now, advances, action_counts, last_exec>>
    /\ UNCHANGED gate

\* run_job_now on a name that is not in the job map
RunUnknownJobNow == \E n \in Names : ~HasJob(n) /\ run_job_now(n, TRUE, "ok", "ok")

RaceNext ==
    \/ \E n \in Names : add_job(n, Callable("bot.follow_user"), every_2_hours, Null, Null,
                                TRUE, Null, Null, "ok")
    \/ \E n \in Names, b \in BOOLEAN : run_job_now_load(n, b)
    \/ run_job_now_store \/ run_job_now_scan \/ RunUnknownJobNow
    \/ Start \/ LoopRunPending \/ LoopDispatch
    \/ (caller = "idle" /\ Advance)

SpecRace == Init /\ [][RaceNext]_vars

\* C38: every execution that appends a JobResult of a job leaves the job's run_count
\* one above what it was just before, so that the increase of run_count equals the
\* number of results appended for the job, however run_job_now and the poll loop
\* interleave.
C38_NoIncrementLost ==
    [][JobExecuted => last_exec'.after.run_count = last_exec'.before.run_count + 1]_vars
\* C39: run_job_now on an existing job returns the JobResult that its own execution
\* appended, also when the poll loop runs the same job meanwhile; on an unknown name
\* it returns None and changes neither the job map, nor the results, nor the files.
C39_RunJobNowReturnsOwnResult ==
    [][CallReturns("run_job_now")
       => IF ret'.value = "None"
          THEN /\ ~HasJob(ret'.name)
               /\ UNCHANGED <<objs, jobs, job_results, jobs_file, results_file>>
          ELSE /\ HasJob(ret'.name)
               /\ ret'.input = ret.input]_vars
(***************************************************************************)
(* Due jobs are dispatched                                                  *)
(***************************************************************************)
\* the instants at which an entry of a two-hour cadence can be due
DueTimes == {k * 2 * Hour : k \in 1..(MaxTicks + 1)}

\* the schedule holds an entry of an enabled job named name that has been due since t
DueSince(name, t) ==
    \E i \in 1..Len(schedule_jobs) :
        /\ Obj(schedule_jobs[i].job).name = name
        /\ Obj(schedule_jobs[i].job).enabled
        /\ schedule_jobs[i].next_run = t
        /\ now >= t

\* a result of the job named name that was made at instant t or later
DispatchedSince(name, t) ==
    \E k \in 1..Len(job_results) :
        job_results[k].job_name = name /\ job_results[k].start_time >= t

\* C40: while the engine is running and every action that is invoked returns, an
\* enabled job that start() has scheduled is dispatched once its entry is due, for
\* the first period and for every later one, also when another job fails (the model
\* runs no job once the log holds MaxRuns results).
C40_DueJobsEventuallyDispatched ==
    \A n \in Names, t \in DueTimes :
        (running /\ DueSince(n, t))
        ~> (DispatchedSince(n, t) \/ ~running \/ Len(job_results) >= MaxRuns)

\* the action of 'b' has failed in the first period, 'a' has been dispatched in the
\* same period after it, and a job has been dispatched again in the second period
C40_Witness ==
    /\ running
    /\ \E i, j, k \in 1..Len(job_results) :
         /\ i < j /\ j < k
         /\ job_results[i].job_name = "b" /\ job_results[i].success = Some(FALSE)
         /\ job_results[j].job_name = "a" /\ job_results[j].start_time = job_results[i].start_time
         /\ job_results[k].start_time = job_results[i].start_time + 2 * Hour
    /\ DispatchedSince("a", 2 * Hour)
    /\ Len(workers) = 1
====
